---- MODULE Spec2Model ----
(***************************************************************************)
(* A model of promptify's AI-provider layer: the per-user RateLimiter,     *)
(* the AIProviderManager that gates and records calls, and the streaming   *)
(* protocol of the OpenAI, Anthropic and Google adapters.                  *)
(*                                                                         *)
(* Time is the value of Date.now() in milliseconds.  A JavaScript Map is a *)
(* function whose DOMAIN is the set of keys present; an optional field of  *)
(* an object is a record field that is present or absent.                  *)
(***************************************************************************)
EXTENDS Integers, Sequences, FiniteSets, TLC

VARIABLES
  now,          \* the value Date.now() returns
  limits,       \* RateLimiter.limits, as set by the constructor
  userLimits,   \* RateLimiter.userLimits : Map<userId, UserRateLimit>
  lastCall,     \* the result of the query just made on the limiter, if any
  recLog,       \* history: recordRequest calls made, per user and minute bucket
  providers,    \* AIProviderManager.providers: the names that have an adapter registered
  defaultProvider, \* AIProviderManager.defaultProvider
  calls         \* the chat / chatStream calls in progress or finished, by call slot

vars == <<now, limits, userLimits, lastCall, recLog, providers, defaultProvider, calls>>

\* the state of the manager and of the calls made through it or on an adapter
managerVars == <<providers, defaultProvider, calls>>

----------------------------------------------------------------------------
(* Bounds of the model *)

\* at most this many recordRequest calls are made in a run
MaxRecords == 2
\* at most this many reads of a response body return bytes
MaxReads == 2
\* an adapter outside the repository delivers at most this many chunks
MaxLocalChunks == 2
\* an inbound batch of messages has at most this many entries
MaxBatch == 2
\* a user completes at most this many requests through the chat endpoint
MaxRequests == 21
\* the catalog a vendor returns lists at most this many models
MaxCatalog == 3

Users == {"u1", "u2"}

\* the least request ceiling a configuration sets explicitly
LeastCeiling == 1

\* token counts passed to recordRequest
TokenCounts == {-3, 0, 7}

----------------------------------------------------------------------------
(* Window sizes and defaults of the limiter *)

MINUTE_MS == 60000
HOUR_MS == 3600000
DAY_MS == 86400000

DefaultRequestsPerMinute == 20
DefaultRequestsPerHour == 200
DefaultRequestsPerDay == 1000
DefaultTokensPerMinute == 40000
DefaultTokensPerHour == 200000
DefaultTokensPerDay == 2000000

\* retention horizons of the sweep, in windows; idle time after which a user is dropped
\* options.temperature ?? 0.7, in tenths
DefaultTemperatureTenths == 7
\* options.maxTokens || 4096
AnthropicDefaultMaxTokens == 4096

KeepMinutes == 10
KeepHours == 48
KeepDays == 90
IdleHours == 24
\* period of the sweep timer
SWEEP_INTERVAL_MS == 300000

\* x ?? d on an optional field f of object o
Nullish(o, f, d) == IF f \in DOMAIN o THEN o[f] ELSE d

\* a token ceiling low enough for one recorded request to pass it
LowTokenCeiling == 5

\* the ProviderRateLimitConfig objects a limiter is constructed with: no ceiling
\* given (all defaults), the minute ceiling alone, a minute ceiling beside low
\* token ceilings, the three request ceilings equal, and the three request
\* ceilings rising by one from minute to day
ConfigSet ==
  { [k \in {} |-> 0],
    [requestsPerMinute |-> LeastCeiling],
    [requestsPerMinute |-> LeastCeiling + 1, tokensPerMinute |-> LowTokenCeiling,
     tokensPerHour |-> LowTokenCeiling, tokensPerDay |-> LowTokenCeiling],
    [requestsPerMinute |-> LeastCeiling, requestsPerHour |-> LeastCeiling,
     requestsPerDay |-> LeastCeiling],
    [requestsPerMinute |-> LeastCeiling, requestsPerHour |-> LeastCeiling + 1,
     requestsPerDay |-> LeastCeiling + 2] }

\* RateLimiter.constructor: this.limits
ConstructLimits(cfg) ==
  [ requestsPerMinute |-> Nullish(cfg, "requestsPerMinute", DefaultRequestsPerMinute),
    requestsPerHour   |-> Nullish(cfg, "requestsPerHour", DefaultRequestsPerHour),
    requestsPerDay    |-> Nullish(cfg, "requestsPerDay", DefaultRequestsPerDay),
    tokensPerMinute   |-> Nullish(cfg, "tokensPerMinute", DefaultTokensPerMinute),
    tokensPerHour     |-> Nullish(cfg, "tokensPerHour", DefaultTokensPerHour),
    tokensPerDay      |-> Nullish(cfg, "tokensPerDay", DefaultTokensPerDay) ]

----------------------------------------------------------------------------
(* Map helpers of the limiter *)

EmptyMap == [k \in {} |-> 0]

\* getCount reading the bucket before the one asked for
getCountPreviousBucket(map, key) ==
  IF key - 1 \in DOMAIN map /\ map[key - 1] # 0 THEN map[key - 1] ELSE 0

\* RateLimiter.getCount: map.get(key) || 0
getCount(map, key) ==
  IF key \in DOMAIN map /\ map[key] # 0 THEN map[key] ELSE 0

\* an incrementCount that stores the amount in place of adding it
incrementCountOverwrite(map, key, amount) ==
  [k \in DOMAIN map \cup {key} |-> IF k = key THEN amount ELSE map[k]]

\* RateLimiter.incrementCount: map.set(key, (map.get(key) || 0) + amount)
incrementCount(map, key, amount) ==
  [k \in DOMAIN map \cup {key} |->
     IF k = key THEN getCount(map, key) + amount ELSE map[k]]

\* the object getUserLimit stores for a user it has not seen
NewUserLimit(userId, t) ==
  [ userId |-> userId,
    requestsPerMinute |-> EmptyMap,
    requestsPerHour |-> EmptyMap,
    requestsPerDay |-> EmptyMap,
    tokensPerMinute |-> EmptyMap,
    tokensPerHour |-> EmptyMap,
    tokensPerDay |-> EmptyMap,
    lastResetTime |-> t ]

\* a getUserLimit that stores a new entry also for a user it has seen
getUserLimitAnew(ul, userId, t) ==
  [u \in DOMAIN ul \cup {userId} |->
     IF u = userId THEN NewUserLimit(userId, t) ELSE ul[u]]

\* RateLimiter.getUserLimit: the map after the call (the entry is created when absent)
getUserLimit(ul, userId, t) ==
  IF userId \in DOMAIN ul
    THEN ul
    ELSE [u \in DOMAIN ul \cup {userId} |->
            IF u = userId THEN NewUserLimit(userId, t) ELSE ul[u]]

----------------------------------------------------------------------------
(* The clock *)

\* the instants at which the model samples Date.now(): the first and the last
\* millisecond of a minute, the start of the next minute, of the next hour and
\* of the next day, and the start of a day beyond the hour horizon of the sweep
Instants ==
  { 0, MINUTE_MS - 1, MINUTE_MS, HOUR_MS, DAY_MS, 3 * DAY_MS }

minuteKeyOf(t) == t \div MINUTE_MS
hourKeyOf(t) == t \div HOUR_MS
dayKeyOf(t) == t \div DAY_MS

----------------------------------------------------------------------------
(* RateLimiter *)

\* checkLimit comparing with > where the code compares with >=
checkLimitStatusStrict(e, t) ==
  LET minReqs == getCount(e.requestsPerMinute, minuteKeyOf(t))
      hourReqs == getCount(e.requestsPerHour, hourKeyOf(t))
      dayReqs == getCount(e.requestsPerDay, dayKeyOf(t))
      perMinute == Nullish(limits, "requestsPerMinute", DefaultRequestsPerMinute)
      perHour == Nullish(limits, "requestsPerHour", DefaultRequestsPerHour)
      perDay == Nullish(limits, "requestsPerDay", DefaultRequestsPerDay)
  IN  IF minReqs > perMinute
        THEN [isLimited |-> TRUE, nextAvailableIn |-> MINUTE_MS - (t % MINUTE_MS)]
      ELSE IF hourReqs > perHour
        THEN [isLimited |-> TRUE, nextAvailableIn |-> HOUR_MS - (t % HOUR_MS)]
      ELSE IF dayReqs > perDay
        THEN [isLimited |-> TRUE, nextAvailableIn |-> DAY_MS - (t % DAY_MS)]
      ELSE [isLimited |-> FALSE,
            remaining |-> [requestsThisMinute |-> perMinute - minReqs,
                           requestsThisHour |-> perHour - hourReqs,
                           requestsThisDay |-> perDay - dayReqs]]

\* checkLimit examining the day window before the hour window
checkLimitStatusDayFirst(e, t) ==
  LET minReqs == getCount(e.requestsPerMinute, minuteKeyOf(t))
      hourReqs == getCount(e.requestsPerHour, hourKeyOf(t))
      dayReqs == getCount(e.requestsPerDay, dayKeyOf(t))
      perMinute == Nullish(limits, "requestsPerMinute", DefaultRequestsPerMinute)
      perHour == Nullish(limits, "requestsPerHour", DefaultRequestsPerHour)
      perDay == Nullish(limits, "requestsPerDay", DefaultRequestsPerDay)
  IN  IF minReqs >= perMinute
        THEN [isLimited |-> TRUE, nextAvailableIn |-> MINUTE_MS - (t % MINUTE_MS)]
      ELSE IF dayReqs >= perDay
        THEN [isLimited |-> TRUE, nextAvailableIn |-> DAY_MS - (t % DAY_MS)]
      ELSE IF hourReqs >= perHour
        THEN [isLimited |-> TRUE, nextAvailableIn |-> HOUR_MS - (t % HOUR_MS)]
      ELSE [isLimited |-> FALSE,
            remaining |-> [requestsThisMinute |-> perMinute - minReqs,
                           requestsThisHour |-> perHour - hourReqs,
                           requestsThisDay |-> perDay - dayReqs]]

\* checkLimit refusing also a user whose tokens of the minute have reached
\* tokensPerMinute
checkLimitStatusTokens(e, t) ==
  LET minReqs == getCount(e.requestsPerMinute, minuteKeyOf(t))
      hourReqs == getCount(e.requestsPerHour, hourKeyOf(t))
      dayReqs == getCount(e.requestsPerDay, dayKeyOf(t))
      minTokens == getCount(e.tokensPerMinute, minuteKeyOf(t))
      perMinute == Nullish(limits, "requestsPerMinute", DefaultRequestsPerMinute)
      perHour == Nullish(limits, "requestsPerHour", DefaultRequestsPerHour)
      perDay == Nullish(limits, "requestsPerDay", DefaultRequestsPerDay)
      tokensPerMinute == Nullish(limits, "tokensPerMinute", DefaultTokensPerMinute)
  IN  IF minReqs >= perMinute \/ minTokens >= tokensPerMinute
        THEN [isLimited |-> TRUE, nextAvailableIn |-> MINUTE_MS - (t % MINUTE_MS)]
      ELSE IF hourReqs >= perHour
        THEN [isLimited |-> TRUE, nextAvailableIn |-> HOUR_MS - (t % HOUR_MS)]
      ELSE IF dayReqs >= perDay
        THEN [isLimited |-> TRUE, nextAvailableIn |-> DAY_MS - (t % DAY_MS)]
      ELSE [isLimited |-> FALSE,
            remaining |-> [requestsThisMinute |-> perMinute - minReqs,
                           requestsThisHour |-> perHour - hourReqs,
                           requestsThisDay |-> perDay - dayReqs]]

\* RateLimiter.checkLimit: the RateLimitStatus returned for the user's entry e at time t
checkLimitStatus(e, t) ==
  LET minReqs == getCount(e.requestsPerMinute, minuteKeyOf(t))
      hourReqs == getCount(e.requestsPerHour, hourKeyOf(t))
      dayReqs == getCount(e.requestsPerDay, dayKeyOf(t))
      perMinute == Nullish(limits, "requestsPerMinute", DefaultRequestsPerMinute)
      perHour == Nullish(limits, "requestsPerHour", DefaultRequestsPerHour)
      perDay == Nullish(limits, "requestsPerDay", DefaultRequestsPerDay)
  IN  IF minReqs >= perMinute
        THEN [isLimited |-> TRUE, nextAvailableIn |-> MINUTE_MS - (t % MINUTE_MS)]
      ELSE IF hourReqs >= perHour
        THEN [isLimited |-> TRUE, nextAvailableIn |-> HOUR_MS - (t % HOUR_MS)]
      ELSE IF dayReqs >= perDay
        THEN [isLimited |-> TRUE, nextAvailableIn |-> DAY_MS - (t % DAY_MS)]
      ELSE [isLimited |-> FALSE,
            remaining |-> [requestsThisMinute |-> perMinute - minReqs,
                           requestsThisHour |-> perHour - hourReqs,
                           requestsThisDay |-> perDay - dayReqs]]

\* RateLimiter.checkLimit(userId) at time t on the map ul: <<map after, status>>
checkLimit(ul, userId, t) ==
  LET after == getUserLimit(ul, userId, t)
  IN  <<after, checkLimitStatus(after[userId], t)>>

\* a recordRequest that counts the request in the minute and the day only
recordRequestSkipsHour(ul, userId, tokenCount, t) ==
  LET after == getUserLimit(ul, userId, t)
  IN  [after EXCEPT
         ![userId].requestsPerMinute = incrementCount(@, minuteKeyOf(t), 1),
         ![userId].requestsPerDay = incrementCount(@, dayKeyOf(t), 1),
         ![userId].lastResetTime = t]

\* RateLimiter.recordRequest(userId, tokenCount) at time t: the map after the call
recordRequest(ul, userId, tokenCount, t) ==
  LET after == getUserLimit(ul, userId, t)
      e == after[userId]
      counted ==
        [e EXCEPT
           !.requestsPerMinute = incrementCount(@, minuteKeyOf(t), 1),
           !.requestsPerHour = incrementCount(@, hourKeyOf(t), 1),
           !.requestsPerDay = incrementCount(@, dayKeyOf(t), 1)]
      withTokens ==
        IF tokenCount > 0
          THEN [counted EXCEPT
                  !.tokensPerMinute = incrementCount(@, minuteKeyOf(t), tokenCount),
                  !.tokensPerHour = incrementCount(@, hourKeyOf(t), tokenCount),
                  !.tokensPerDay = incrementCount(@, dayKeyOf(t), tokenCount)]
          ELSE counted
  IN  [after EXCEPT ![userId] = [withTokens EXCEPT !.lastResetTime = t]]

\* RateLimiter.getRemainingUsage: the object returned for the user's entry e at time t
remainingUsage(e, t) ==
  [ requestsPerMinute |->
      [used |-> getCount(e.requestsPerMinute, minuteKeyOf(t)),
       limit |-> Nullish(limits, "requestsPerMinute", DefaultRequestsPerMinute)],
    requestsPerHour |->
      [used |-> getCount(e.requestsPerHour, hourKeyOf(t)),
       limit |-> Nullish(limits, "requestsPerHour", DefaultRequestsPerHour)],
    requestsPerDay |->
      [used |-> getCount(e.requestsPerDay, dayKeyOf(t)),
       limit |-> Nullish(limits, "requestsPerDay", DefaultRequestsPerDay)],
    tokensPerMinute |->
      [used |-> getCount(e.tokensPerMinute, minuteKeyOf(t)),
       limit |-> Nullish(limits, "tokensPerMinute", DefaultTokensPerMinute)],
    tokensPerHour |->
      [used |-> getCount(e.tokensPerHour, hourKeyOf(t)),
       limit |-> Nullish(limits, "tokensPerHour", DefaultTokensPerHour)],
    tokensPerDay |->
      [used |-> getCount(e.tokensPerDay, dayKeyOf(t)),
       limit |-> Nullish(limits, "tokensPerDay", DefaultTokensPerDay)] ]

\* t - key * window > keep * window, written on the quotient and the remainder of
\* the age so that no intermediate value leaves the integers TLC can hold
olderThan(t, key, window, keep) ==
  LET age == t - key * window
  IN  age \div window > keep \/ (age \div window = keep /\ age % window > 0)

\* a sweep that deletes every entry, whatever its age
prunedAll(map, t, window, keep) == EmptyMap

\* a Map with the entries older than the horizon deleted
pruned(map, t, window, keep) ==
  [k \in {j \in DOMAIN map : ~olderThan(t, j, window, keep)} |-> map[k]]

\* RateLimiter.cleanup at time t: the map after the sweep
cleanup(ul, t) ==
  LET swept(e) ==
        [e EXCEPT
           !.requestsPerMinute = pruned(@, t, MINUTE_MS, KeepMinutes),
           !.requestsPerHour = pruned(@, t, HOUR_MS, KeepHours),
           !.requestsPerDay = pruned(@, t, DAY_MS, KeepDays)]
      kept == {u \in DOMAIN ul : ~(t - ul[u].lastResetTime > IdleHours * HOUR_MS)}
  IN  [u \in kept |-> swept(ul[u])]

----------------------------------------------------------------------------
(* Calls, chunks and the events of a call *)

\* the adapters of the repository; in the manager "local" stands for
\* any other implementation of IAIProvider that a deployment registers
VendorAdapters == {"openai", "anthropic", "google"}

\* the user whose calls go through the manager
ManagerUsers == {"u1"}

\* the adapters registered with the manager: the one initializeAIProviders
\* registers, and one registered by the deployment
ManagerAdapters == {"openai", "local"}

\* a well-formed message
PlainMessage == [role |-> "user", content |-> "hi"]

\* options that name a model and nothing else ("" stands for a missing model);
\* temperature is held in tenths, so 25 is 2.5
PlainOptions == [model |-> "m"]

\* o with field f set to v
With(o, f, v) == [k \in DOMAIN o \cup {f} |-> IF k = f THEN v ELSE o[k]]

\* the arguments (messages, options) that pass validation: no temperature, the
\* two ends of the temperature range, the least maxTokens
ValidInputs ==
  { [messages |-> <<PlainMessage>>, options |-> PlainOptions],
    [messages |-> <<PlainMessage>>, options |-> With(PlainOptions, "temperature", 0)],
    [messages |-> <<PlainMessage>>, options |-> With(PlainOptions, "temperature", 20)],
    [messages |-> <<PlainMessage, PlainMessage>>,
     options |-> With(PlainOptions, "maxTokens", 1)] }

\* arguments with one defect each: no message, a message without role, a
\* message without content, no model, a temperature above 2 or below 0,
\* maxTokens below 1
InvalidInputs ==
  { [messages |-> <<>>, options |-> PlainOptions],
    [messages |-> <<PlainMessage, [role |-> "", content |-> "hi"]>>,
     options |-> PlainOptions],
    [messages |-> <<[role |-> "user", content |-> ""]>>, options |-> PlainOptions],
    [messages |-> <<PlainMessage>>, options |-> [model |-> ""]],
    [messages |-> <<PlainMessage>>, options |-> With(PlainOptions, "temperature", 25)],
    [messages |-> <<PlainMessage>>, options |-> With(PlainOptions, "temperature", -1)],
    [messages |-> <<PlainMessage>>, options |-> With(PlainOptions, "maxTokens", 0)] }

CallInputs == ValidInputs \cup InvalidInputs

\* the arguments of the calls made through the manager
ManagerInputs ==
  { [messages |-> <<PlainMessage>>, options |-> PlainOptions],
    [messages |-> <<PlainMessage>>, options |-> With(PlainOptions, "temperature", 20)],
    [messages |-> <<PlainMessage>>, options |-> With(PlainOptions, "temperature", 25)] }

\* BaseAIProvider.validateMessages: TRUE when it does not throw
validateMessages(messages) ==
  /\ Len(messages) # 0
  /\ \A i \in 1..Len(messages) : messages[i].role # "" /\ messages[i].content # ""

\* BaseAIProvider.validateOptions: TRUE when it does not throw
validateOptions(options) ==
  /\ options.model # ""
  /\ "temperature" \in DOMAIN options
       => ~(options.temperature < 0 \/ options.temperature > 20)
  /\ "maxTokens" \in DOMAIN options => ~(options.maxTokens < 1)

\* a validation that lets every argument through
validateNothing(input) == TRUE

\* validateMessages(messages); validateOptions(options) at the head of chat and
\* chatStream: TRUE when neither throws
validate(input) == validateMessages(input.messages) /\ validateOptions(input.options)

\* a call slot in which no call has been made
IdleCall ==
  [ api |-> "none",          \* "chat" | "chatStream" on the manager, "adapterStream"
                            \* for chatStream called on an adapter directly
    user |-> "",             \* userId
    provider |-> "",         \* the provider argument ("" when none is given)
    adapter |-> "",          \* the adapter that serves the call
    input |-> [messages |-> <<>>, options |-> [model |-> ""]],   \* the arguments
    pc |-> "idle",           \* where the call is suspended
    reads |-> 0,             \* reader.read() calls that returned a value
    totalTokens |-> 0,       \* the variable captured by the manager's wrappedOnChunk
    gate |-> [isLimited |-> FALSE],   \* limitStatus
    trace |-> <<>>,          \* the events of the call, in order
    outcome |-> "pending",   \* "returned" | "thrown"
    result |-> [kind |-> "none"] ]    \* the value returned or the error thrown

\* events of a call
Chunk(type) == [ev |-> "chunk", type |-> type]
ChunkWithUsage(type, total) == [ev |-> "chunk", type |-> type, usage |-> total]
HttpRequest(body) == [ev |-> "http", body |-> body]
HttpResponse(outcome) == [ev |-> "response", outcome |-> outcome]
AdapterInvoked == [ev |-> "invoke"]
AdapterSettled == [ev |-> "settle"]
Recorded(tokens) == [ev |-> "record", tokens |-> tokens]

chunksOf(trace) == SelectSeq(trace, LAMBDA x : x.ev = "chunk")

\* Math.ceil(ms / 1000) for ms >= 0
ceilSeconds(ms) == (ms + 999) \div 1000

\* the message of the manager's rate-limit error:
\* `Rate limit exceeded. Try again in ${Math.ceil((nextAvailableIn || 0) / 1000)} seconds`
rateLimitMessage(status) ==
  [kind |-> "rateLimit",
   seconds |-> ceilSeconds(IF "nextAvailableIn" \in DOMAIN status
                             THEN status.nextAvailableIn ELSE 0)]

\* a wrapper that adds every usage update to the captured total
wrappedTotalSum(total, chunk) ==
  IF "usage" \in DOMAIN chunk THEN total + chunk.usage ELSE total

\* the manager's wrappedOnChunk: if (chunk.usage?.totalTokens) totalTokens = ...
wrappedTotal(total, chunk) ==
  IF "usage" \in DOMAIN chunk /\ chunk.usage # 0 THEN chunk.usage ELSE total

\* onChunk(chunk) as seen by call c: the wrapper of the manager or the callback
\* of the chat endpoint first, then the caller
deliver(c, chunk) ==
  [c EXCEPT !.trace = Append(@, chunk),
            !.totalTokens = IF c.api \in {"chatStream", "postStream"}
                              THEN wrappedTotal(@, chunk) ELSE @]

----------------------------------------------------------------------------
(* The adapters: what the vendor sends and what chatStream makes of it *)

\* how a fetch settles: it fails (network error, timeout), it answers non-2xx
\* with an error text that does or does not say the temperature is unsupported,
\* or it answers 2xx, with or without a body
FetchOutcomes ==
  {"networkError", "non2xxTemperature", "non2xxOther", "ok", "okNoBody"}

\* the lines of a streamed body: a content fragment, the end marker of the
\* vendor ("data: [DONE]", a message_stop event), an error event, and a line
\* that is not a data line, carries no content or does not parse
VendorLines == {"content", "done", "error", "skip"}

\* a data line whose JSON does not parse, told apart from the other lines that
\* deliver nothing
StreamLines == VendorLines \cup {"malformed"}

\* what one reader.read() that returns bytes holds: one or two whole lines
ReadBatches ==
  {<<l>> : l \in StreamLines} \cup {<<l, m>> : l \in StreamLines, m \in StreamLines}

\* history: the adapter met a fragment that does not parse
Malformed == [ev |-> "malformed"]
met(c, line) == IF line = "malformed" THEN [c EXCEPT !.trace = Append(@, Malformed)] ELSE c

\* an adapter that takes a fragment that does not parse for an error of the vendor
lineChunksAbort(adapter, line) ==
  IF line = "malformed" THEN <<Chunk("error")>>
  ELSE CASE adapter = "openai" ->
              IF line = "done" THEN <<Chunk("end")>>
              ELSE IF line = "content" THEN <<Chunk("text")>>
              ELSE <<>>
         [] adapter = "anthropic" ->
              IF line = "content" THEN <<Chunk("text")>>
              ELSE IF line = "done" THEN <<Chunk("end")>>
              ELSE IF line = "error" THEN <<Chunk("error")>>
              ELSE <<>>
         [] adapter = "google" ->
              IF line = "content" THEN <<Chunk("text")>> ELSE <<>>

\* the chunks one line of the body makes the adapter deliver
lineChunks(adapter, line) ==
  CASE adapter = "openai" ->
         IF line = "done" THEN <<Chunk("end")>>
         ELSE IF line = "content" THEN <<Chunk("text")>>
         ELSE <<>>
    [] adapter = "anthropic" ->
         IF line = "content" THEN <<Chunk("text")>>
         ELSE IF line = "done" THEN <<Chunk("end")>>
         ELSE IF line = "error" THEN <<Chunk("error")>>
         ELSE <<>>
    [] adapter = "google" ->
         IF line = "content" THEN <<Chunk("text")>> ELSE <<>>

RECURSIVE deliverAll(_, _)
deliverAll(c, chunks) ==
  IF chunks = <<>> THEN c
  ELSE deliverAll(deliver(c, Head(chunks)), Tail(chunks))

\* the for loop over the lines of one read
RECURSIVE processLines(_, _)
processLines(c, lines) ==
  IF lines = <<>> THEN c
  ELSE processLines(deliverAll(met(c, Head(lines)), lineChunks(c.adapter, Head(lines))),
                    Tail(lines))

\* the adapter's promise settles: the call is marked for its caller's continuation
resolved(c) == [c EXCEPT !.pc = "resolved"]
rejected(c, why) == [c EXCEPT !.pc = "rejected", !.result = [kind |-> why]]

\* a catch block of chatStream that delivers the error chunk and throws again
caughtRethrows(c) == rejected(deliver(c, Chunk("error")), "adapter")

\* the catch block of chatStream: an error chunk, then the function returns
caught(c) == resolved(deliver(c, Chunk("error")))

\* options.temperature !== undefined
temperatureGiven(c) == "temperature" \in DOMAIN c.input.options

\* the call streams: the request body asks for a streamed answer
streams(c) == c.api \in {"chatStream", "adapterStream", "postStream"}

\* f |-> v as a one-field record
Field(f, v) == [k \in {f} |-> v]

\* system = msg.content keeping the first system message in place of the last
assignedOnce(current, content) == IF current = <<>> THEN <<content>> ELSE current

\* system = msg.content in the loop of convertMessages: the variable after the
\* assignment, <<>> standing for undefined
assigned(current, content) == <<content>>

\* the loop of convertMessages of the Anthropic and the Google adapter:
\* <<the system variable, the vendor messages>> after the messages
RECURSIVE convertLoop(_, _, _, _)
convertLoop(adapter, messages, system, vendorMessages) ==
  IF messages = <<>> THEN <<system, vendorMessages>>
  ELSE LET msg == Head(messages)
       IN  IF msg.role = "system"
             THEN convertLoop(adapter, Tail(messages), assigned(system, msg.content),
                              vendorMessages)
           ELSE convertLoop(adapter, Tail(messages), system,
                  Append(vendorMessages,
                         IF adapter = "anthropic"
                           THEN [role |-> msg.role, content |-> msg.content]
                           ELSE [role |-> IF msg.role = "assistant" THEN "model" ELSE "user",
                                 parts |-> <<[text |-> msg.content]>>]))

\* convertMessages and the statements that put its result in the request
\* body: the fields of the body that come from the messages
convertMessages(adapter, messages) ==
  LET r == convertLoop(adapter, messages, <<>>, <<>>)
  IN  IF adapter = "anthropic"
        THEN Field("messages", r[2])
               @@ (IF r[1] # <<>> /\ r[1][1] # ""
                     THEN Field("system", r[1][1]) ELSE EmptyMap)
        ELSE Field("contents", r[2])
               @@ (IF r[1] # <<>>
                     THEN Field("systemInstruction", [parts |-> <<[text |-> r[1][1]]>>])
                     ELSE EmptyMap)

\* the JSON body of the request an adapter builds from the arguments of the
\* call; includeTemperature is the argument of buildPayload / buildStreamPayload
requestBody(c, includeTemperature) ==
  LET o == c.input.options
      stream == IF streams(c) /\ c.adapter # "google"
                  THEN Field("stream", TRUE) ELSE EmptyMap
  IN  CASE c.adapter = "openai" ->
             [model |-> o.model, messages |-> c.input.messages]
               @@ stream
               @@ (IF "maxTokens" \in DOMAIN o
                     THEN Field("max_tokens", o.maxTokens) ELSE EmptyMap)
               @@ (IF includeTemperature /\ temperatureGiven(c)
                     THEN Field("temperature", o.temperature) ELSE EmptyMap)
        [] c.adapter = "anthropic" ->
             [model |-> o.model,
              max_tokens |-> IF "maxTokens" \in DOMAIN o /\ o.maxTokens # 0
                               THEN o.maxTokens ELSE AnthropicDefaultMaxTokens,
              temperature |-> Nullish(o, "temperature", DefaultTemperatureTenths)]
               @@ convertMessages(c.adapter, c.input.messages)
               @@ stream
        [] c.adapter = "google" ->
             [model |-> o.model,
              temperature |-> Nullish(o, "temperature", DefaultTemperatureTenths)]
               @@ convertMessages(c.adapter, c.input.messages)
               @@ (IF "maxTokens" \in DOMAIN o
                     THEN Field("maxOutputTokens", o.maxTokens) ELSE EmptyMap)

\* fetch(...) is called; the request that follows a refusal leaves the
\* temperature out
fetching(c, pc) ==
  [c EXCEPT !.trace = Append(@, HttpRequest(requestBody(c, pc \notin {"fetch2", "chatFetch2"}))),
            !.pc = pc]

\* a chatStream that issues its request before it delivers the start chunk
streamBeginRequestFirst(c) ==
  IF ~validate(c.input) THEN rejected(c, "validation")
  ELSE deliver(fetching(c, "fetch1"), Chunk("start"))

\* chatStream of an adapter, from its call to its first await:
\* validation, the start chunk, the first request
streamBegin(c) ==
  IF ~validate(c.input) THEN rejected(c, "validation")
  ELSE fetching(deliver(c, Chunk("start")), "fetch1")

\* the fetch a call awaits has settled with outcome o
responded(c, o) == [c EXCEPT !.trace = Append(@, HttpResponse(o))]

\* chatStream after a fetch has settled with outcome o
streamAfterFetch(c, o) ==
  CASE o = "networkError" -> caught(c)
    [] o = "non2xxTemperature" ->
         IF c.adapter = "openai" /\ c.pc = "fetch1" /\ temperatureGiven(c)
           THEN fetching(c, "fetch2")
           ELSE caught(c)
    [] o = "non2xxOther" -> caught(c)
    [] o = "okNoBody" -> caught(c)
    [] o = "ok" -> [c EXCEPT !.pc = "read"]

\* chatStream after reader.read() has returned bytes holding `lines`
streamAfterRead(c, lines) ==
  [processLines(c, lines) EXCEPT !.reads = @ + 1]

\* chatStream after reader.read() has returned done
streamAfterDone(c) ==
  IF c.adapter = "google" THEN resolved(deliver(c, Chunk("end"))) ELSE resolved(c)

\* chatStream after reader.read() has failed
streamAfterReadError(c) == caught(c)

----------------------------------------------------------------------------
(* The limiter used directly: its public methods, its timer and the clock *)

recordsMade(u) ==
  LET RECURSIVE total(_)
      total(K) == IF K = {} THEN 0
                  ELSE LET k == CHOOSE x \in K : TRUE
                       IN  recLog[u][k] + total(K \ {k})
  IN  total(DOMAIN recLog[u])

allRecordsMade ==
  LET RECURSIVE total(_)
      total(U) == IF U = {} THEN 0
                  ELSE LET u == CHOOSE x \in U : TRUE
                       IN  recordsMade(u) + total(U \ {u})
  IN  total(Users)

\* the history entry of one recordRequest call
logged(log, u, t) ==
  [log EXCEPT ![u] = incrementCount(@, minuteKeyOf(t), 1)]

InitLimiter ==
  /\ now = 0
  /\ \E cfg \in ConfigSet : limits = ConstructLimits(cfg)
  /\ userLimits = [u \in {} |-> 0]
  /\ lastCall = [op |-> "none"]
  /\ recLog = [u \in Users |-> EmptyMap]
  /\ providers = {}
  /\ defaultProvider = "openai"
  /\ calls = [c \in {} |-> IdleCall]

\* Date.now() moves on
Tick ==
  /\ \E t \in Instants : t > now /\ now' = t
  /\ lastCall' = [op |-> "none"]
  /\ UNCHANGED <<limits, userLimits, recLog, managerVars>>

\* a caller invokes checkLimit(u)
CheckLimit ==
  \E u \in Users :
    LET r == checkLimit(userLimits, u, now)
    IN  /\ userLimits' = r[1]
        /\ lastCall' = [op |-> "checkLimit", user |-> u, status |-> r[2]]
        /\ UNCHANGED <<now, limits, recLog, managerVars>>

\* a caller invokes recordRequest(u, n)
RecordRequest ==
  \E u \in Users, n \in TokenCounts :
    /\ allRecordsMade < MaxRecords
    /\ userLimits' = recordRequest(userLimits, u, n, now)
    /\ recLog' = logged(recLog, u, now)
    /\ lastCall' = [op |-> "recordRequest", user |-> u, tokenCount |-> n,
                    \* history: what checkLimit(u) would have answered just before
                    statusBefore |->
                      checkLimitStatus(getUserLimit(userLimits, u, now)[u], now)]
    /\ UNCHANGED <<now, limits, managerVars>>

\* a caller invokes getRemainingUsage(u)
GetRemainingUsage ==
  \E u \in Users :
    LET after == getUserLimit(userLimits, u, now)
    IN  /\ userLimits' = after
        /\ lastCall' = [op |-> "getRemainingUsage", user |-> u,
                        usage |-> remainingUsage(after[u], now)]
        /\ UNCHANGED <<now, limits, recLog, managerVars>>

\* the interval timer set by the constructor fires
Cleanup ==
  /\ now >= SWEEP_INTERVAL_MS
  /\ userLimits' = cleanup(userLimits, now)
  /\ lastCall' = [op |-> "none"]
  /\ UNCHANGED <<now, limits, recLog, managerVars>>

NextLimiter ==
  \/ Tick
  \/ CheckLimit
  \/ RecordRequest
  \/ GetRemainingUsage
  \/ Cleanup

Spec == InitLimiter /\ [][NextLimiter]_vars

----------------------------------------------------------------------------
(* The adapters: chat *)

\* usage.total_tokens as the vendor reports it
TokenTotals == {0, 7}

\* the AIProviderResponse an adapter of the repository builds from a 2xx body:
\* usage is always present, totalTokens is the vendor's count or 0
vendorResponse(total) == [content |-> "text", usage |-> total]

\* the responses of an adapter outside the repository: usage may be absent
LocalResponses ==
  {[content |-> "text"]} \cup {vendorResponse(n) : n \in TokenTotals}

\* chat of an adapter, from its call to its first await
chatBegin(c) ==
  IF ~validate(c.input) THEN rejected(c, "validation")
  ELSE fetching(c, "chatFetch1")

\* a chat that answers every non-2xx response to its first request by a retry
chatAfterFetchRetryAll(c, o, total) ==
  CASE o = "networkError" -> rejected(c, "adapter")
    [] o \in {"non2xxTemperature", "non2xxOther"} ->
         IF c.pc = "chatFetch1" THEN fetching(c, "chatFetch2")
         ELSE rejected(c, "adapter")
    [] o = "okNoBody" -> rejected(c, "adapter")
    [] o = "ok" ->
         resolved([c EXCEPT !.result = [kind |-> "response",
                                        response |-> vendorResponse(total)]])

\* chat after a fetch has settled with outcome o and, when 2xx, a body with `total`
chatAfterFetch(c, o, total) ==
  CASE o = "networkError" -> rejected(c, "adapter")
    [] o = "non2xxTemperature" ->
         IF c.adapter = "openai" /\ c.pc = "chatFetch1" /\ temperatureGiven(c)
           THEN fetching(c, "chatFetch2")
           ELSE rejected(c, "adapter")
    [] o = "non2xxOther" -> rejected(c, "adapter")
    [] o = "okNoBody" -> rejected(c, "adapter")
    [] o = "ok" ->
         resolved([c EXCEPT !.result = [kind |-> "response",
                                        response |-> vendorResponse(total)]])

----------------------------------------------------------------------------
(* AIProviderManager *)

\* AIProviderManager.getProvider: the name looked up, name || this.defaultProvider
\* ("" stands for a call that names no provider)
providerName(name) == IF name = "" THEN defaultProvider ELSE name

\* a manager that records every chat as costing no tokens
usageTotalIgnored(response) == 0

\* response.usage?.totalTokens || 0
usageTotal(response) ==
  IF "usage" \in DOMAIN response /\ response.usage # 0 THEN response.usage ELSE 0

\* manager calls that have passed the gate and have not recorded yet
admittedInFlight ==
  Cardinality({id \in DOMAIN calls :
                 calls[id].api \in {"chat", "chatStream"} /\ calls[id].pc # "done"
                   /\ calls[id].pc # "idle"})

\* a call slot is free once its call has finished
Free(id) == calls[id].pc \in {"idle", "done"}

finished(c, outcome) == [c EXCEPT !.pc = "done", !.outcome = outcome]

\* the caller's continuation once the adapter's promise has settled, as a step
\* on the whole state: an adapter called directly just returns or throws;
\* AIProviderManager.chat and chatStream record the request and return, or let
\* the rejection through
Continue(id, c) ==
  IF c.pc = "resolved" /\ c.api \in {"chat", "chatStream"}
    THEN LET tokens == IF c.api = "chat" THEN usageTotal(c.result.response)
                       ELSE c.totalTokens
         IN  /\ userLimits' = recordRequest(userLimits, c.user, tokens, now)
             /\ recLog' = logged(recLog, c.user, now)
             /\ calls' = [calls EXCEPT ![id] =
                            finished([c EXCEPT !.trace =
                                        Append(Append(@, AdapterSettled), Recorded(tokens))],
                                     "returned")]
  ELSE IF c.pc = "resolved"
    THEN /\ calls' = [calls EXCEPT ![id] =
                        finished([c EXCEPT !.trace = Append(@, AdapterSettled)], "returned")]
         /\ UNCHANGED <<userLimits, recLog>>
  ELSE IF c.pc = "rejected"
    THEN /\ calls' = [calls EXCEPT ![id] =
                        finished([c EXCEPT !.trace = Append(@, AdapterSettled)], "thrown")]
         /\ UNCHANGED <<userLimits, recLog>>
  ELSE /\ calls' = [calls EXCEPT ![id] = c]
       /\ UNCHANGED <<userLimits, recLog>>

\* the adapter method invoked by the manager, up to its first await
invoke(c) ==
  LET called == [c EXCEPT !.trace = Append(@, AdapterInvoked)]
  IN  IF c.adapter = "local" THEN [called EXCEPT !.pc = "local"]
      ELSE IF c.api = "chat" THEN chatBegin(called)
      ELSE streamBegin(called)

\* a chat that answers a limited caller by returning the message
limitedChatReturns(c, status) ==
  finished([c EXCEPT !.result = rateLimitMessage(status)], "returned")

\* AIProviderManager.chat when limitStatus.isLimited: throw new Error(...)
limitedChat(c, status) ==
  finished([c EXCEPT !.result = rateLimitMessage(status)], "thrown")

\* a chatStream that answers a limited caller as chat does, by throwing
limitedStreamThrows(c, status) ==
  finished([c EXCEPT !.result = rateLimitMessage(status)], "thrown")

\* AIProviderManager.chatStream when limitStatus.isLimited:
\* onChunk({type: 'error', error: ...}); return
limitedStream(c, status) ==
  finished(deliver(c, [ev |-> "chunk", type |-> "error",
                       error |-> rateLimitMessage(status)]),
           "returned")

\* AIProviderManager.chat / chatStream from the call to the first await: the
\* rate-limit check, then the lookup of the provider, then the adapter
managerBegin(api, u, name, input, status) ==
  LET c == [IdleCall EXCEPT !.api = api, !.user = u, !.provider = name,
                            !.input = input,
                            !.gate = status, !.pc = "begin"]
  IN  IF status.isLimited
        THEN IF api = "chat" THEN limitedChat(c, status) ELSE limitedStream(c, status)
      ELSE IF providerName(name) \notin providers
        THEN finished([c EXCEPT !.result = [kind |-> "notRegistered",
                                            provider |-> providerName(name)]],
                      "thrown")
      ELSE invoke([c EXCEPT !.adapter = providerName(name)])

\* AIProviderManager.registerProvider
RegisterProvider ==
  /\ \E a \in ManagerAdapters : providers' = providers \cup {a}
  /\ UNCHANGED <<now, limits, userLimits, lastCall, recLog, defaultProvider, calls>>

\* AIProviderManager.setDefaultProvider (throws, changing nothing, when not registered)
SetDefaultProvider ==
  /\ \E a \in ManagerAdapters : a \in providers /\ defaultProvider' = a
  /\ UNCHANGED <<now, limits, userLimits, lastCall, recLog, providers, calls>>

\* a caller invokes AIProviderManager.chat or chatStream
ManagerCall(api) ==
  \E id \in DOMAIN calls, u \in ManagerUsers, name \in ManagerAdapters \cup {""},
     input \in ManagerInputs :
    LET r == checkLimit(userLimits, u, now)
        c == managerBegin(api, u, name, input, r[2])
    IN  /\ Free(id)
        /\ recordsMade(u) + admittedInFlight < MaxRecords
        /\ IF c.pc \in {"resolved", "rejected"}
             THEN /\ calls' = [calls EXCEPT ![id] =
                                 finished([c EXCEPT !.trace = Append(@, AdapterSettled)],
                                          "thrown")]
                  /\ userLimits' = r[1]
             ELSE /\ calls' = [calls EXCEPT ![id] = c]
                  /\ userLimits' = r[1]
        /\ UNCHANGED <<now, limits, lastCall, recLog, providers, defaultProvider>>

ManagerChat == ManagerCall("chat")
ManagerChatStream == ManagerCall("chatStream")

\* a fetch issued by chat settles
ChatFetchSettle ==
  \E id \in DOMAIN calls, o \in FetchOutcomes, total \in TokenTotals :
    /\ calls[id].pc \in {"chatFetch1", "chatFetch2"}
    /\ Continue(id, chatAfterFetch(responded(calls[id], o), o, total))
    /\ UNCHANGED <<now, limits, lastCall, providers, defaultProvider>>

\* chat of an adapter outside the repository settles
LocalChatSettle ==
  \E id \in DOMAIN calls :
    /\ calls[id].pc = "local"
    /\ calls[id].api = "chat"
    /\ \/ \E r \in LocalResponses :
            Continue(id, resolved([calls[id] EXCEPT
                                     !.result = [kind |-> "response", response |-> r]]))
       \/ Continue(id, rejected(calls[id], "adapter"))
    /\ UNCHANGED <<now, limits, lastCall, providers, defaultProvider>>

\* usage.totalTokens as a chunk of an adapter outside the repository reports it
ChunkTotals == {0, 7, 12}

\* chatStream of an adapter outside the repository delivers a text chunk, with
\* or without usage
LocalChunk ==
  \E id \in DOMAIN calls :
    /\ calls[id].pc = "local"
    /\ calls[id].api = "chatStream"
    /\ Len(chunksOf(calls[id].trace)) < MaxLocalChunks
    /\ \/ calls' = [calls EXCEPT ![id] = deliver(@, Chunk("text"))]
       \/ \E total \in ChunkTotals :
            calls' = [calls EXCEPT ![id] = deliver(@, ChunkWithUsage("text", total))]
    /\ UNCHANGED <<now, limits, userLimits, lastCall, recLog, providers, defaultProvider>>

\* chatStream of an adapter outside the repository settles
LocalStreamSettle ==
  \E id \in DOMAIN calls :
    /\ calls[id].pc = "local"
    /\ calls[id].api = "chatStream"
    /\ \/ Continue(id, resolved(calls[id]))
       \/ Continue(id, rejected(calls[id], "adapter"))
    /\ UNCHANGED <<now, limits, lastCall, providers, defaultProvider>>

\* a caller invokes chat or chatStream on an adapter directly
AdapterCall(api) ==
  \E id \in DOMAIN calls, a \in VendorAdapters, input \in CallInputs :
    LET called == [IdleCall EXCEPT !.api = api, !.adapter = a, !.input = input,
                                   !.trace = <<AdapterInvoked>>]
        c == IF api = "adapterChat" THEN chatBegin(called) ELSE streamBegin(called)
    IN  /\ Free(id)
        /\ Continue(id, c)
        /\ UNCHANGED <<now, limits, lastCall, providers, defaultProvider>>

AdapterChat == AdapterCall("adapterChat")
AdapterStream == AdapterCall("adapterStream")

\* a fetch issued by chatStream settles
StreamFetchSettle ==
  \E id \in DOMAIN calls, o \in FetchOutcomes :
    /\ calls[id].pc \in {"fetch1", "fetch2"}
    /\ Continue(id, streamAfterFetch(responded(calls[id], o), o))
    /\ UNCHANGED <<now, limits, lastCall, providers, defaultProvider>>

\* reader.read() returns bytes that hold one of `batches`
StreamReadOf(batches) ==
  \E id \in DOMAIN calls, lines \in batches :
    /\ calls[id].pc = "read"
    /\ calls[id].reads < MaxReads
    /\ Continue(id, streamAfterRead(calls[id], lines))
    /\ UNCHANGED <<now, limits, lastCall, providers, defaultProvider>>

StreamRead == StreamReadOf(ReadBatches)

\* reader.read() returns bytes that hold one line
StreamReadLine == StreamReadOf({<<l>> : l \in VendorLines})

\* reader.read() returns done
StreamDone ==
  \E id \in DOMAIN calls :
    /\ calls[id].pc = "read"
    /\ Continue(id, streamAfterDone(calls[id]))
    /\ UNCHANGED <<now, limits, lastCall, providers, defaultProvider>>

\* reader.read() fails
StreamReadError ==
  \E id \in DOMAIN calls :
    /\ calls[id].pc = "read"
    /\ Continue(id, streamAfterReadError(calls[id]))
    /\ UNCHANGED <<now, limits, lastCall, providers, defaultProvider>>

----------------------------------------------------------------------------
(* The adapters on their own: one chatStream call at a time on any of them *)

InitStream ==
  /\ now = 0
  /\ limits = ConstructLimits([k \in {} |-> 0])
  /\ userLimits = [u \in {} |-> 0]
  /\ lastCall = [op |-> "none"]
  /\ recLog = [u \in Users |-> EmptyMap]
  /\ providers = {}
  /\ defaultProvider = "openai"
  /\ calls = [c \in {1} |-> IdleCall]

NextStream ==
  \/ AdapterChat
  \/ ChatFetchSettle
  \/ AdapterStream
  \/ StreamFetchSettle
  \/ StreamRead
  \/ StreamDone
  \/ StreamReadError

SpecStream == InitStream /\ [][NextStream]_vars

----------------------------------------------------------------------------
(* The manager: the calls of one user, made one at a time through           *)
(* AIProviderManager while the clock moves                                   *)

\* the instants sampled while calls go through the manager
ManagerInstants == {0, MINUTE_MS - 1, MINUTE_MS}

\* the limiter configuration of the manager: one request per minute
ManagerConfigSet ==
  {[requestsPerMinute |-> 1]}

\* the manager is new, or another user has already made a request through it
InitManager ==
  /\ now = 0
  /\ \E cfg \in ManagerConfigSet : limits = ConstructLimits(cfg)
  /\ \/ /\ userLimits = [u \in {} |-> 0]
        /\ recLog = [u \in Users |-> EmptyMap]
     \/ \E other \in Users \ ManagerUsers :
          /\ userLimits = recordRequest([u \in {} |-> 0], other, 0, 0)
          /\ recLog = logged([u \in Users |-> EmptyMap], other, 0)
  /\ lastCall = [op |-> "none"]
  /\ providers = {}
  /\ defaultProvider = "openai"
  /\ calls = [c \in {1} |-> IdleCall]

\* Date.now() moves on
TickManager ==
  /\ \E t \in ManagerInstants : t > now /\ now' = t
  /\ UNCHANGED <<limits, userLimits, lastCall, recLog, managerVars>>

NextManager ==
  \/ TickManager
  \/ RegisterProvider
  \/ SetDefaultProvider
  \/ ManagerChat
  \/ ManagerChatStream
  \/ ChatFetchSettle
  \/ LocalChatSettle
  \/ LocalChunk
  \/ LocalStreamSettle
  \/ StreamFetchSettle
  \/ StreamReadLine
  \/ StreamDone
  \/ StreamReadError

SpecManager == InitManager /\ [][NextManager]_vars

----------------------------------------------------------------------------
(* The chat endpoint's normalizeMessages, on JSON values                     *)
(* A string is the sequence of its characters; an object is the sequence of  *)
(* its fields in insertion order                                             *)

JNull == [t |-> "null"]
JUndefined == [t |-> "undefined"]
JNum(n) == [t |-> "num", v |-> n]
JStr(chars) == [t |-> "str", v |-> chars]
JArr(items) == [t |-> "arr", v |-> items]
JObj(fields) == [t |-> "obj", v |-> fields]
F(k, v) == [k |-> k, v |-> v]

\* o.k for a value that is not null or undefined: the field of an object,
\* undefined on anything else
get(o, k) ==
  IF o.t = "obj" /\ \E i \in 1..Len(o.v) : o.v[i].k = k
    THEN o.v[CHOOSE i \in 1..Len(o.v) : o.v[i].k = k].v
    ELSE JUndefined

\* typeof v === 'string'
isString(v) == v.t = "str"

\* the characters of the field names that occur in the inputs
charsOf(k) ==
  CASE k = "role" -> <<"r", "o", "l", "e">>
    [] k = "content" -> <<"c", "o", "n", "t", "e", "n", "t">>
    [] k = "message" -> <<"m", "e", "s", "s", "a", "g", "e">>
    [] k = "parts" -> <<"p", "a", "r", "t", "s">>
    [] k = "text" -> <<"t", "e", "x", "t">>
    [] k = "x" -> <<"x">>

\* the decimal digits of the numbers that occur in the inputs
digitsOf(n) == IF n = 1 THEN <<"1">> ELSE <<"5">>

RECURSIVE joined(_, _)
\* Array.prototype.join: the strings of a sequence with sep between them
joined(strings, sep) ==
  IF strings = <<>> THEN <<>>
  ELSE IF Len(strings) = 1 THEN strings[1]
  ELSE strings[1] \o sep \o joined(Tail(strings), sep)

RECURSIVE stringify(_)
\* JSON.stringify(v) for a value other than undefined; inside an array
\* undefined is written null, inside an object a field that is undefined is
\* left out
stringify(v) ==
  CASE v.t = "null" -> <<"n", "u", "l", "l">>
    [] v.t = "undefined" -> <<"n", "u", "l", "l">>
    [] v.t = "num" -> digitsOf(v.v)
    [] v.t = "str" -> <<"\"">> \o v.v \o <<"\"">>
    [] v.t = "arr" ->
         <<"[">> \o joined([i \in 1..Len(v.v) |-> stringify(v.v[i])], <<",">>) \o <<"]">>
    [] v.t = "obj" ->
         LET present == SelectSeq(v.v, LAMBDA f : f.v.t # "undefined")
         IN  <<"{">>
               \o joined([i \in 1..Len(present) |->
                            <<"\"">> \o charsOf(present[i].k) \o <<"\"", ":">>
                              \o stringify(present[i].v)],
                         <<",">>)
               \o <<"}">>

Whitespace == {" ", "\n", "\t"}

RECURSIVE trimStart(_)
trimStart(chars) ==
  IF chars # <<>> /\ Head(chars) \in Whitespace THEN trimStart(Tail(chars)) ELSE chars

RECURSIVE trimEnd(_)
trimEnd(chars) ==
  IF chars # <<>> /\ chars[Len(chars)] \in Whitespace
    THEN trimEnd(SubSeq(chars, 1, Len(chars) - 1)) ELSE chars

\* String.prototype.trim
trim(chars) == trimEnd(trimStart(chars))

user == <<"u", "s", "e", "r">>
system == <<"s", "y", "s", "t", "e", "m">>
assistant == <<"a", "s", "s", "i", "s", "t", "a", "n", "t">>

\* const allowed = new Set(['system', 'user', 'assistant'])
allowed == {system, user, assistant}

\* a role taken as it comes whenever it is a string
resolveRoleVerbatim(m) ==
  IF m.t \notin {"null", "undefined"} /\ isString(get(m, "role")) /\ get(m, "role").v # <<>>
    THEN get(m, "role").v ELSE user

\* m?.role && typeof m.role === 'string' && allowed.has(m.role) ? m.role : 'user'
resolveRole(m) ==
  IF m.t \notin {"null", "undefined"} /\ isString(get(m, "role"))
       /\ get(m, "role").v # <<>> /\ get(m, "role").v \in allowed
    THEN get(m, "role").v ELSE user

\* p => typeof p === 'string' ? p : JSON.stringify(p), over the items of an array
partStrings(items) ==
  [i \in 1..Len(items) |-> IF isString(items[i]) THEN items[i].v ELSE stringify(items[i])]

\* a value is truthy
truthy(v) ==
  ~( v.t \in {"null", "undefined"} \/ (v.t = "str" /\ v.v = <<>>) \/ (v.t = "num" /\ v.v = 0) )

\* the if / else-if chain that sets `content`, for an entry m that is not null
\* or undefined
resolveContent(m) ==
  LET content == get(m, "content")
  IN  IF isString(content) THEN content.v
      ELSE IF isString(get(m, "message")) THEN get(m, "message").v
      ELSE IF truthy(content) /\ content.t \in {"obj", "arr"}
        THEN IF get(content, "parts").t = "arr"
               THEN joined(partStrings(get(content, "parts").v), <<>>)
             ELSE IF content.t = "arr"
               THEN joined(partStrings(content.v), <<"\n">>)
             ELSE IF isString(get(content, "text")) THEN get(content, "text").v
             ELSE stringify(content)
      ELSE IF isString(get(m, "text")) THEN get(m, "text").v
      ELSE <<>>

\* the callback of msgs.map: { role, content: (content || '').trim() }
normalizeOne(m) == [role |-> resolveRole(m), content |-> trim(resolveContent(m))]

\* normalizeMessages(msgs) for an array msgs: reading m.content of an entry
\* that is null or undefined throws a TypeError, which ends the call
normalizeMessages(msgs) ==
  IF \E i \in 1..Len(msgs) : msgs[i].t \in {"null", "undefined"}
    THEN [outcome |-> "thrown", error |-> "TypeError"]
    ELSE [outcome |-> "returned",
          value |-> SelectSeq([i \in 1..Len(msgs) |-> normalizeOne(msgs[i])],
                              LAMBDA mm : mm.content # <<>>)]

\* the entries of the inbound batches
InboundEntries ==
  { JObj(<<F("role", JStr(user)), F("content", JStr(<<"h", "i">>))>>),
    JObj(<<F("role", JStr(system)), F("content", JStr(<<" ", "a", "\n">>))>>),
    JObj(<<F("role", JStr(<<"x">>)), F("content", JStr(<<"h", "i">>))>>),
    JObj(<<F("role", JNum(5)), F("content", JStr(<<"h", "i">>))>>),
    JObj(<<F("content", JObj(<<F("parts", JArr(<<JStr(<<"a">>), JStr(<<"b">>)>>))>>))>>),
    JObj(<<F("content", JObj(<<F("parts", JArr(<<JStr(<<"a">>), JNum(5)>>))>>))>>),
    JObj(<<F("content", JObj(<<F("parts", JArr(<<>>)), F("text", JStr(<<"t">>))>>))>>),
    JObj(<<F("content", JObj(<<F("parts", JStr(<<"a">>)), F("text", JStr(<<"t">>))>>))>>),
    JObj(<<F("content", JArr(<<JStr(<<"a">>), JStr(<<"b">>)>>))>>),
    JObj(<<F("content", JArr(<<JStr(<<" ">>)>>))>>),
    JObj(<<F("content", JObj(<<F("text", JStr(<<"t">>))>>))>>),
    JObj(<<F("text", JStr(<<"t">>))>>),
    JObj(<<F("message", JStr(<<"m">>)), F("content", JObj(<<F("text", JStr(<<"t">>))>>))>>),
    JObj(<<F("content", JStr(<<>>)), F("message", JStr(<<"m">>))>>),
    JObj(<<F("content", JStr(<<" ", " ">>))>>),
    JObj(<<F("content", JObj(<<F("x", JNum(1))>>))>>),
    JObj(<<F("content", JObj(<<F("x", JNum(1))>>)), F("text", JStr(<<"t">>))>>),
    JObj(<<F("role", JStr(assistant))>>),
    JNum(5),
    JStr(<<"h", "i">>),
    JNull,
    JUndefined }

RECURSIVE batchesOf(_)
\* the sequences of entries of length n
batchesOf(n) ==
  IF n = 0 THEN {<<>>}
  ELSE {Append(b, m) : b \in batchesOf(n - 1), m \in InboundEntries}

InboundBatches == UNION {batchesOf(n) : n \in 0..MaxBatch}

InitNormalize ==
  /\ now = 0
  /\ limits = ConstructLimits([k \in {} |-> 0])
  /\ userLimits = [u \in {} |-> 0]
  /\ \E msgs \in InboundBatches : lastCall = [op |-> "body", msgs |-> msgs]
  /\ recLog = [u \in Users |-> EmptyMap]
  /\ providers = {}
  /\ defaultProvider = "openai"
  /\ calls = [c \in {} |-> IdleCall]

\* the endpoint normalizes the messages of the request body
NormalizeMessages ==
  /\ lastCall.op = "body"
  /\ lastCall' = [op |-> "normalizeMessages", msgs |-> lastCall.msgs,
                  result |-> normalizeMessages(lastCall.msgs)]
  /\ UNCHANGED <<now, limits, userLimits, recLog, managerVars>>

NextNormalize == NormalizeMessages

SpecNormalize == InitNormalize /\ [][NextNormalize]_vars

----------------------------------------------------------------------------
(* The chat endpoint: POST /api/chat, one request at a time                  *)

\* the provider field of a request body
RouteProviders == VendorAdapters \cup {"other"}

\* a body the endpoint serves: one message, a model, a user
PlainBody ==
  [ messages |-> JArr(<<JObj(<<F("role", JStr(user)), F("content", JStr(<<"h", "i">>))>>)>>),
    options |-> PlainOptions,
    stream |-> FALSE,
    userId |-> "u1",
    provider |-> "openai",
    key |-> TRUE ]                \* an API key is stored for the user and provider

\* the request bodies: every provider, streamed or not, with the options of
\* the calls made through the manager, and bodies with one defect each
RouteBodies ==
  { [PlainBody EXCEPT !.provider = a, !.stream = st, !.options = i.options] :
      a \in VendorAdapters, st \in BOOLEAN, i \in ManagerInputs }
  \cup
  { [PlainBody EXCEPT !.messages = JStr(<<"h", "i">>)],
    [PlainBody EXCEPT !.messages = JArr(<<JObj(<<F("content", JStr(<<" ", " ">>))>>)>>)],
    [PlainBody EXCEPT !.messages = JArr(<<JNull>>)],
    [PlainBody EXCEPT !.options = [model |-> ""]],
    [PlainBody EXCEPT !.userId = ""],
    [PlainBody EXCEPT !.key = FALSE],
    [PlainBody EXCEPT !.provider = "other"] }

\* a normalized message as the adapters' Message
roleName(chars) ==
  IF chars = system THEN "system" ELSE IF chars = assistant THEN "assistant" ELSE "user"
textOf(chars) == IF chars = <<"h", "i">> THEN "hi" ELSE "text"
asMessages(value) ==
  [i \in 1..Len(value) |-> [role |-> roleName(value[i].role),
                            content |-> textOf(value[i].content)]]

\* NextResponse.json(..., {status})
answered(c, status) ==
  finished([c EXCEPT !.result = [kind |-> "http", status |-> status]], "returned")

\* controller.enqueue of a frame that is not a chunk: 'data: [DONE]' or the
\* error frame of handleStream's catch block
Frame(data) == [ev |-> "frame", data |-> data]

\* the client has aborted the request; for a streamed answer the stream of
\* the response is then cancelled and controller.enqueue throws
ClientAbort == [ev |-> "cancel"]
cancelled(c) == \E i \in 1..Len(c.trace) : c.trace[i] = ClientAbort

\* the user's completed requests through the endpoint
requestsCompleted(u) == recordsMade(u)

\* POST up to its first await on the adapter; status is what checkLimit
\* returns on the limiter the request constructs
routeBegin(body, status) ==
  LET c == [IdleCall EXCEPT !.api = IF body.stream THEN "postStream" ELSE "post",
                            !.user = body.userId, !.provider = body.provider,
                            !.pc = "begin"]
      n == normalizeMessages(body.messages.v)
  IN  IF body.messages.t # "arr" THEN answered(c, 400)
      ELSE IF body.options.model = "" THEN answered(c, 400)
      ELSE IF body.userId = "" THEN answered(c, 400)
      ELSE IF ~body.key THEN answered(c, 403)
      ELSE IF n.outcome = "thrown" THEN answered(c, 500)
      ELSE IF n.value = <<>> THEN answered(c, 400)
      ELSE IF body.provider \notin VendorAdapters THEN answered(c, 400)
      ELSE IF status.isLimited
        THEN finished([c EXCEPT !.gate = status,
                                !.result = [kind |-> "http", status |-> 429,
                                            retryAfter |->
                                              ceilSeconds(Nullish(status, "nextAvailableIn", 0))]],
                      "returned")
      ELSE LET called == [c EXCEPT !.adapter = body.provider, !.gate = status,
                                   !.input = [messages |-> asMessages(n.value),
                                              options |-> body.options],
                                   !.trace = <<AdapterInvoked>>]
           IN  IF body.stream THEN streamBegin(called) ELSE chatBegin(called)

\* the request constructs its limiter and checks it: every body that passes
\* the checks made before `new RateLimiter()`
reachesLimiter(body) ==
  /\ body.messages.t = "arr"
  /\ body.options.model # ""
  /\ body.userId # ""
  /\ body.key
  /\ normalizeMessages(body.messages.v).outcome = "returned"
  /\ normalizeMessages(body.messages.v).value # <<>>
  /\ body.provider \in VendorAdapters

\* what follows the await on the adapter, as a step on the whole state: POST
\* records on the request's limiter and answers with the response, or answers
\* 500 from its catch block; handleStream records, enqueues the closing frame
\* and closes, or enqueues an error frame from its catch block
RouteContinue(id, c) ==
  IF c.pc = "resolved"
    THEN LET tokens == IF c.api = "post" THEN usageTotal(c.result.response)
                       ELSE c.totalTokens
             recorded == [c EXCEPT !.trace =
                            Append(Append(@, AdapterSettled), Recorded(tokens))]
         IN  /\ userLimits' = recordRequest(userLimits, c.user, tokens, now)
             /\ recLog' = logged(recLog, c.user, now)
             /\ calls' = [calls EXCEPT ![id] =
                            IF c.api = "post" \/ cancelled(c)
                              THEN answered(recorded, 200)
                              ELSE answered([recorded EXCEPT
                                               !.trace = Append(@, Frame("[DONE]"))], 200)]
  ELSE IF c.pc = "rejected"
    THEN /\ calls' = [calls EXCEPT ![id] =
                        LET settled == [c EXCEPT !.trace = Append(@, AdapterSettled)]
                        IN  IF c.api = "post" THEN answered(settled, 500)
                            ELSE IF cancelled(c) THEN answered(settled, 200)
                            ELSE answered([settled EXCEPT
                                             !.trace = Append(@, Frame("error"))], 200)]
         /\ UNCHANGED <<userLimits, recLog>>
  ELSE /\ calls' = [calls EXCEPT ![id] = c]
       /\ UNCHANGED <<userLimits, recLog>>

\* the most limiters constructed in a run that counts them
MaxTimers == 3

\* history: the interval timers that were set and not cleared. The constructor
\* of RateLimiter sets one, destroy() clears it, and the endpoint never calls
\* destroy()
NoTimers == [op |-> "timers", live |-> 0]
constructed(timers) == [timers EXCEPT !.live = @ + 1]

\* a client sends a request; the limiter of the request is new
Post ==
  \E id \in DOMAIN calls, body \in RouteBodies :
    LET r == checkLimit([u \in {} |-> 0], body.userId, now)
        c == routeBegin(body, r[2])
    IN  /\ Free(id)
        /\ body.userId # "" => requestsCompleted(body.userId) < MaxRequests
        /\ (lastCall.op = "timers" /\ reachesLimiter(body)) => lastCall.live < MaxTimers
        /\ lastCall' = IF lastCall.op = "timers" /\ reachesLimiter(body)
                         THEN constructed(lastCall) ELSE lastCall
        /\ IF reachesLimiter(body)
             THEN /\ userLimits' = r[1]
                  /\ IF c.pc = "rejected"
                       THEN calls' = [calls EXCEPT ![id] =
                              LET settled == [c EXCEPT !.trace = Append(@, AdapterSettled)]
                              IN  IF c.api = "post" THEN answered(settled, 500)
                                  ELSE answered([settled EXCEPT
                                                   !.trace = Append(@, Frame("error"))], 200)]
                       ELSE calls' = [calls EXCEPT ![id] = c]
             ELSE /\ calls' = [calls EXCEPT ![id] = c]
                  /\ UNCHANGED userLimits
        /\ UNCHANGED <<now, limits, recLog, providers, defaultProvider>>

\* the client aborts a request that is in flight
Cancel ==
  \E id \in DOMAIN calls :
    /\ calls[id].api \in {"post", "postStream"}
    /\ ~Free(id)
    /\ ~cancelled(calls[id])
    /\ calls' = [calls EXCEPT ![id].trace = Append(@, ClientAbort)]
    /\ UNCHANGED <<now, limits, userLimits, lastCall, recLog, providers, defaultProvider>>

\* the catch block of chatStream when the callback throws: the error chunk is
\* passed to the callback, which throws again, and chatStream rejects
thrownThrough(c) == rejected(deliver(c, Chunk("error")), "enqueue")

\* the callback throws outside the try block that wraps the parsing of a
\* line: the end chunk of the OpenAI adapter
throwsThrough(c, line) == cancelled(c) /\ c.adapter = "openai" /\ line = "done"

\* the for loop over the lines of one read under a callback that may throw
RECURSIVE processLinesThrowing(_, _)
processLinesThrowing(c, lines) ==
  IF lines = <<>> THEN c
  ELSE LET d == deliverAll(c, lineChunks(c.adapter, Head(lines)))
       IN  IF throwsThrough(c, Head(lines)) THEN thrownThrough(d)
           ELSE processLinesThrowing(d, Tail(lines))

\* a fetch issued by the adapter's chat settles
RouteChatFetchSettle ==
  \E id \in DOMAIN calls, o \in FetchOutcomes, total \in TokenTotals :
    /\ calls[id].api = "post"
    /\ calls[id].pc \in {"chatFetch1", "chatFetch2"}
    /\ RouteContinue(id, chatAfterFetch(responded(calls[id], o), o, total))
    /\ UNCHANGED <<now, limits, lastCall, providers, defaultProvider>>

\* a fetch issued by the adapter's chatStream settles
RouteStreamFetchSettle ==
  \E id \in DOMAIN calls, o \in FetchOutcomes :
    /\ calls[id].api = "postStream"
    /\ calls[id].pc \in {"fetch1", "fetch2"}
    /\ LET c == streamAfterFetch(responded(calls[id], o), o)
       IN  RouteContinue(id, IF cancelled(c) /\ c.pc = "resolved"
                               THEN rejected(c, "enqueue") ELSE c)
    /\ UNCHANGED <<now, limits, lastCall, providers, defaultProvider>>

\* reader.read() returns bytes that hold one line
RouteStreamRead ==
  \E id \in DOMAIN calls, l \in VendorLines :
    /\ calls[id].api = "postStream"
    /\ calls[id].pc = "read"
    /\ calls[id].reads < MaxReads
    /\ RouteContinue(id, [processLinesThrowing(calls[id], <<l>>) EXCEPT !.reads = @ + 1])
    /\ UNCHANGED <<now, limits, lastCall, providers, defaultProvider>>

\* reader.read() returns done
RouteStreamDone ==
  \E id \in DOMAIN calls :
    /\ calls[id].api = "postStream"
    /\ calls[id].pc = "read"
    /\ LET c == calls[id]
       IN  RouteContinue(id, IF cancelled(c) /\ c.adapter = "google"
                               THEN thrownThrough(deliver(c, Chunk("end")))
                               ELSE streamAfterDone(c))
    /\ UNCHANGED <<now, limits, lastCall, providers, defaultProvider>>

\* reader.read() fails
RouteStreamReadError ==
  \E id \in DOMAIN calls :
    /\ calls[id].api = "postStream"
    /\ calls[id].pc = "read"
    /\ LET c == streamAfterReadError(calls[id])
       IN  RouteContinue(id, IF cancelled(c) THEN rejected(c, "enqueue") ELSE c)
    /\ UNCHANGED <<now, limits, lastCall, providers, defaultProvider>>

InitRoute ==
  /\ now = 0
  /\ limits = ConstructLimits([k \in {} |-> 0])
  /\ userLimits = [u \in {} |-> 0]
  /\ lastCall = [op |-> "none"]
  /\ recLog = [u \in Users |-> EmptyMap]
  /\ providers = {}
  /\ defaultProvider = "openai"
  /\ calls = [c \in {1} |-> IdleCall]

NextRoute ==
  \/ Post
  \/ Cancel
  \/ RouteChatFetchSettle
  \/ RouteStreamFetchSettle
  \/ RouteStreamRead
  \/ RouteStreamDone
  \/ RouteStreamReadError

SpecRoute == InitRoute /\ [][NextRoute]_vars

\* the endpoint with the interval timers of its limiters counted
InitTimers ==
  /\ now = 0
  /\ limits = ConstructLimits([k \in {} |-> 0])
  /\ userLimits = [u \in {} |-> 0]
  /\ lastCall = NoTimers
  /\ recLog = [u \in Users |-> EmptyMap]
  /\ providers = {}
  /\ defaultProvider = "openai"
  /\ calls = [c \in {1} |-> IdleCall]

SpecTimers == InitTimers /\ [][NextRoute]_vars

----------------------------------------------------------------------------
(* The adapters: listModels and getAvailableModels                           *)

\* AVAILABLE_MODELS of each adapter
AVAILABLE_MODELS(adapter) ==
  CASE adapter = "openai" ->
         <<"gpt-4-turbo", "gpt-4", "gpt-3.5-turbo", "gpt-3.5-turbo-16k">>
    [] adapter = "anthropic" ->
         <<"claude-3-5-sonnet-20241022", "claude-3-5-haiku-20241022",
           "claude-3-opus-20240229", "claude-3-sonnet-20240229",
           "claude-3-haiku-20240307">>
    [] adapter = "google" ->
         <<"gemini-2.0-flash-exp", "gemini-1.5-pro", "gemini-1.5-flash",
           "gemini-1.5-flash-8b">>

\* getAvailableModels()
getAvailableModels(adapter) == AVAILABLE_MODELS(adapter)

\* the model ids (OpenAI) and names (Google) a vendor's catalog may list
CatalogEntries(adapter) ==
  IF adapter = "openai" THEN {"gpt-4o", "gpt-4", "whisper-1", "dall-e-3"}
  ELSE {"models/gemini-pro", "models/gemini-1.5-pro", "models/embedding-001", "models/aqa"}

\* id.includes('gpt'), name.includes('gemini')
ofFamily(entry) ==
  entry \in {"gpt-4o", "gpt-4", "models/gemini-pro", "models/gemini-1.5-pro"}

\* name.replace('models/', '') for Google; the id itself for OpenAI
listedAs(entry) ==
  CASE entry = "models/gemini-pro" -> "gemini-pro"
    [] entry = "models/gemini-1.5-pro" -> "gemini-1.5-pro"
    [] entry = "models/embedding-001" -> "embedding-001"
    [] entry = "models/aqa" -> "aqa"
    [] OTHER -> entry

RECURSIVE catalogsOf(_, _)
\* the catalogs of n entries
catalogsOf(adapter, n) ==
  IF n = 0 THEN {<<>>}
  ELSE {Append(c, x) : c \in catalogsOf(adapter, n - 1), x \in CatalogEntries(adapter)}

Catalogs(adapter) == UNION {catalogsOf(adapter, n) : n \in 0..MaxCatalog}

\* listModels from its call to its first await
listModelsBegin(adapter, hasKey) ==
  IF adapter = "anthropic"
    THEN [pc |-> "done", outcome |-> "returned", models |-> AVAILABLE_MODELS(adapter)]
  ELSE IF ~hasKey
    THEN [pc |-> "done", outcome |-> "returned",
          models |-> IF adapter = "openai" THEN <<>> ELSE AVAILABLE_MODELS(adapter)]
  ELSE [pc |-> "fetch"]

\* how the catalog query settles: the fetch fails, the vendor answers non-2xx,
\* it answers 2xx with a body that holds no list, or 2xx with a catalog
CatalogOutcomes == {"networkError", "non2xx", "okNoList", "ok"}

\* listModels after the fetch has settled
listModelsAfterFetch(adapter, o, catalog) ==
  [pc |-> "done", outcome |-> "returned",
   models |->
     IF o \in {"networkError", "non2xx", "okNoList"} THEN AVAILABLE_MODELS(adapter)
     ELSE LET family == SelectSeq(catalog, ofFamily)
          IN  [i \in 1..Len(family) |-> listedAs(family[i])]]

InitModels ==
  /\ now = 0
  /\ limits = ConstructLimits([k \in {} |-> 0])
  /\ userLimits = [u \in {} |-> 0]
  /\ \E a \in VendorAdapters, hasKey \in BOOLEAN :
       lastCall = [op |-> "adapter", adapter |-> a, hasKey |-> hasKey]
  /\ recLog = [u \in Users |-> EmptyMap]
  /\ providers = {}
  /\ defaultProvider = "openai"
  /\ calls = [c \in {} |-> IdleCall]

\* a caller invokes listModels on the adapter
ListModels ==
  /\ lastCall.op = "adapter"
  /\ lastCall' = [op |-> "listModels", adapter |-> lastCall.adapter,
                  hasKey |-> lastCall.hasKey, query |-> "none"]
                   @@ listModelsBegin(lastCall.adapter, lastCall.hasKey)
  /\ UNCHANGED <<now, limits, userLimits, recLog, managerVars>>

\* the catalog query settles
ListModelsSettle ==
  /\ lastCall.op = "listModels"
  /\ lastCall.pc = "fetch"
  /\ \E o \in CatalogOutcomes :
       \E catalog \in IF o = "ok" THEN Catalogs(lastCall.adapter) ELSE {<<>>} :
         lastCall' = [op |-> "listModels", adapter |-> lastCall.adapter,
                      hasKey |-> lastCall.hasKey, query |-> o, catalog |-> catalog]
                       @@ listModelsAfterFetch(lastCall.adapter, o, catalog)
  /\ UNCHANGED <<now, limits, userLimits, recLog, managerVars>>

NextModels == ListModels \/ ListModelsSettle

SpecModels == InitModels /\ [][NextModels]_vars

----------------------------------------------------------------------------
(* The manager under calls that overlap: one user, one limiter, an adapter   *)
(* registered by the deployment, every call in a slot of its own             *)

\* the slots of the calls; a call may begin while earlier ones await their adapter
CallSlots == {1, 2, 3}

\* the limiter configurations of the manager under overlapping calls
OverlapConfigSet == {[requestsPerMinute |-> 1], [requestsPerMinute |-> 2]}

\* history: how many calls passed the gate and reached the adapter, by the
\* minute bucket of their check, and whether a call began while another was
\* awaiting its adapter
NoAdmissions == [op |-> "calls", admitted |-> EmptyMap, overlapped |-> FALSE]

InFlight(id) == calls[id].pc \notin {"idle", "done"}

InitOverlap ==
  /\ now = 0
  /\ \E cfg \in OverlapConfigSet : limits = ConstructLimits(cfg)
  /\ userLimits = [u \in {} |-> 0]
  /\ lastCall = NoAdmissions
  /\ recLog = [u \in Users |-> EmptyMap]
  /\ providers = {"local"}
  /\ defaultProvider = "local"
  /\ calls = [c \in CallSlots |-> IdleCall]

\* the user calls AIProviderManager.chat or chatStream in the next unused slot
OverlapCall ==
  \E id \in DOMAIN calls, u \in ManagerUsers, api \in {"chat", "chatStream"} :
    LET r == checkLimit(userLimits, u, now)
        c == managerBegin(api, u, "", [messages |-> <<PlainMessage>>,
                                       options |-> PlainOptions], r[2])
    IN  /\ calls[id].pc = "idle"
        /\ \A j \in DOMAIN calls : j < id => calls[j].pc # "idle"
        /\ calls' = [calls EXCEPT ![id] = c]
        /\ userLimits' = r[1]
        /\ lastCall' =
             [lastCall EXCEPT
                !.admitted = IF c.adapter # ""
                               THEN incrementCount(@, minuteKeyOf(now), 1) ELSE @,
                !.overlapped = @ \/ \E j \in DOMAIN calls : InFlight(j)]
        /\ UNCHANGED <<now, limits, recLog, providers, defaultProvider>>

\* chatStream of the adapter delivers its one chunk that reports usage
OverlapChunk ==
  \E id \in DOMAIN calls :
    /\ calls[id].pc = "local"
    /\ calls[id].api = "chatStream"
    /\ chunksOf(calls[id].trace) = <<>>
    /\ \E total \in TokenTotals \ {0} :
         calls' = [calls EXCEPT ![id] = deliver(@, ChunkWithUsage("text", total))]
    /\ UNCHANGED <<now, limits, userLimits, lastCall, recLog, providers, defaultProvider>>

NextOverlap ==
  \/ TickManager
  \/ OverlapCall
  \/ OverlapChunk
  \/ LocalChatSettle
  \/ LocalStreamSettle

SpecOverlap == InitOverlap /\ [][NextOverlap]_vars

----------------------------------------------------------------------------
(* The read loop of chatStream on the bytes of the body: the buffer, the      *)
(* split into lines and the line kept for the next read                       *)

\* the longest body, in lines
MaxBodyLines == 2

\* the characters of a body: "d" stands for the prefix 'data: ', "a" and "b"
\* for JSON objects that carry the content a and b, "x" for the end marker of
\* the vendor ('[DONE]', a message_stop event), "nl" for '\n'
NewLine == "nl"

\* the lines vendors send: data lines with content or the end marker, bare
\* JSON objects, and the empty line between events
BodyLines == {<<"d", "a">>, <<"d", "b">>, <<"d", "x">>, <<"a">>, <<"b">>, <<>>}

\* the bodies: up to MaxBodyLines lines, the last one with or without its '\n'
RECURSIVE bodiesOf(_)
bodiesOf(n) ==
  IF n = 0 THEN {<<>>}
  ELSE bodiesOf(n - 1) \cup
       {b \o l \o <<NewLine>> : b \in {x \in bodiesOf(n - 1) : x = <<>> \/ x[Len(x)] = NewLine},
                                l \in BodyLines}
       \cup
       {b \o l : b \in {x \in bodiesOf(n - 1) : x = <<>> \/ x[Len(x)] = NewLine},
                 l \in BodyLines \ {<<>>}}

Bodies == bodiesOf(MaxBodyLines)

\* buffer.split('\n'): the pieces between the newlines, the last piece being
\* what follows the last newline
RECURSIVE split(_, _)
split(chars, piece) ==
  IF chars = <<>> THEN <<piece>>
  ELSE IF Head(chars) = NewLine THEN <<piece>> \o split(Tail(chars), <<>>)
  ELSE split(Tail(chars), Append(piece, Head(chars)))

\* what a line is to an adapter: line.startsWith('data: ') and the payload for
\* OpenAI and Anthropic, line.trim() and JSON.parse(line) for Google
kindOf(adapter, line) ==
  IF adapter = "google"
    THEN IF line = <<>> THEN "skip"
         ELSE IF line \in {<<"a">>, <<"b">>} THEN "content"
         ELSE "malformed"
  ELSE IF line = <<>> \/ Head(line) # "d" THEN "skip"
  ELSE IF Len(line) = 2 /\ line[2] \in {"a", "b"} THEN "content"
  ELSE IF Len(line) = 2 /\ line[2] = "x" THEN "done"
  ELSE "malformed"

\* onChunk({ type: 'text', content })
TextChunk(content) == [ev |-> "chunk", type |-> "text", content |-> content]

\* the chunks a line of characters makes the adapter deliver
charLineChunks(adapter, line) ==
  IF kindOf(adapter, line) = "content" THEN <<TextChunk(line[Len(line)])>>
  ELSE lineChunks(adapter, kindOf(adapter, line))

RECURSIVE chunksOfLines(_, _)
chunksOfLines(adapter, lines) ==
  IF lines = <<>> THEN <<>>
  ELSE charLineChunks(adapter, Head(lines)) \o chunksOfLines(adapter, Tail(lines))

\* a read that splits what it received and forgets the line left unfinished
\* by the read before
afterReadNoCarry(r, value) ==
  LET lines == split(value, <<>>)
  IN  [r EXCEPT !.buffer = lines[Len(lines)],
                !.delivered = @ \o chunksOfLines(r.adapter, SubSeq(lines, 1, Len(lines) - 1)),
                !.rest = SubSeq(@, Len(value) + 1, Len(@))]

\* one turn of the read loop on the bytes `value`: buffer += decode(value);
\* lines = buffer.split('\n'); buffer = lines.pop() || ''; for (line of lines)
afterRead(r, value) ==
  LET lines == split(r.buffer \o value, <<>>)
  IN  [r EXCEPT !.buffer = lines[Len(lines)],
                !.delivered = @ \o chunksOfLines(r.adapter, SubSeq(lines, 1, Len(lines) - 1)),
                !.rest = SubSeq(@, Len(value) + 1, Len(@))]

\* the read loop when reader.read() returns done
afterDone(r) ==
  [r EXCEPT !.pc = "closed",
            !.delivered = IF r.adapter = "google" THEN Append(@, Chunk("end")) ELSE @]

\* the response of the vendor has arrived: its body is one of Bodies
InitBytes ==
  /\ now = 0
  /\ limits = ConstructLimits([k \in {} |-> 0])
  /\ userLimits = [u \in {} |-> 0]
  /\ \E a \in VendorAdapters, body \in Bodies :
       lastCall = [op |-> "chatStream", adapter |-> a, body |-> body, rest |-> body,
                   buffer |-> <<>>, delivered |-> <<>>, pc |-> "read"]
  /\ recLog = [u \in Users |-> EmptyMap]
  /\ providers = {}
  /\ defaultProvider = "openai"
  /\ calls = [c \in {} |-> IdleCall]

\* reader.read() returns the next bytes of the body, as many as the network
\* delivers at once
BytesRead ==
  /\ lastCall.pc = "read"
  /\ \E n \in 1..Len(lastCall.rest) :
       lastCall' = afterRead(lastCall, SubSeq(lastCall.rest, 1, n))
  /\ UNCHANGED <<now, limits, userLimits, recLog, managerVars>>

\* reader.read() returns done once the body has been read to its end
BytesDone ==
  /\ lastCall.pc = "read"
  /\ lastCall.rest = <<>>
  /\ lastCall' = afterDone(lastCall)
  /\ UNCHANGED <<now, limits, userLimits, recLog, managerVars>>

NextBytes ==
  \/ BytesRead
  \/ BytesDone

SpecBytes == InitBytes /\ [][NextBytes]_vars

----------------------------------------------------------------------------
(* convertMessages of the Anthropic and the Google adapter on the canonical   *)
(* messages of a call                                                         *)

\* the longest list of messages
MaxMessages == 3

\* the canonical messages: a role of Message and a content that passed
\* validateMessages
CanonicalMessages ==
  {[role |-> r, content |-> t] : r \in {"system", "user", "assistant"}, t \in {"p", "q"}}

RECURSIVE messageLists(_)
messageLists(n) ==
  IF n = 0 THEN {<<>>}
  ELSE messageLists(n - 1) \cup
       {Append(l, m) : l \in {x \in messageLists(n - 1) : Len(x) = n - 1},
                       m \in CanonicalMessages}

\* chat or chatStream of the adapter is called with valid messages
InitConvert ==
  /\ now = 0
  /\ limits = ConstructLimits([k \in {} |-> 0])
  /\ userLimits = [u \in {} |-> 0]
  /\ \E a \in {"anthropic", "google"}, l \in messageLists(MaxMessages) \ {<<>>} :
       lastCall = [op |-> "messages", adapter |-> a, messages |-> l]
  /\ recLog = [u \in Users |-> EmptyMap]
  /\ providers = {}
  /\ defaultProvider = "openai"
  /\ calls = [c \in {} |-> IdleCall]

\* the adapter builds the request body from the messages
ConvertMessages ==
  /\ lastCall.op = "messages"
  /\ lastCall' = [op |-> "convertMessages", adapter |-> lastCall.adapter,
                  messages |-> lastCall.messages,
                  body |-> convertMessages(lastCall.adapter, lastCall.messages)]
  /\ UNCHANGED <<now, limits, userLimits, recLog, managerVars>>

NextConvert == ConvertMessages

SpecConvert == InitConvert /\ [][NextConvert]_vars

----------------------------------------------------------------------------
(* What the history says: the recordRequest calls a user made in the window *)
(* of size `window` that holds time t                                        *)

callsInWindow(u, t, window) ==
  LET RECURSIVE total(_)
      total(K) == IF K = {} THEN 0
                  ELSE LET k == CHOOSE x \in K : TRUE
                       IN  recLog[u][k] + total(K \ {k})
  IN  total({k \in DOMAIN recLog[u] : (k * MINUTE_MS) \div window = t \div window})

\* the size of the first window, in the order minute, hour, day, in which the
\* user has made at least as many calls as the ceiling allows; 0 when there is none
firstWindowAtCeiling(u) ==
  IF callsInWindow(u, now, 60000) >= limits.requestsPerMinute THEN 60000
  ELSE IF callsInWindow(u, now, 3600000) >= limits.requestsPerHour THEN 3600000
  ELSE IF callsInWindow(u, now, 86400000) >= limits.requestsPerDay THEN 86400000
  ELSE 0

----------------------------------------------------------------------------
(* Claims about the limiter *)

\* C1: once a user has made requestsPerMinute recordRequest calls in one minute
\* bucket, a checkLimit for that user in the same bucket returns isLimited = true
\* with 0 < nextAvailableIn <= 60000
C1_LimitedAtCeiling ==
  \A u \in Users :
    ( /\ lastCall.op = "checkLimit"
      /\ lastCall.user = u
      /\ callsInWindow(u, now, 60000) = limits.requestsPerMinute )
    => /\ lastCall.status.isLimited = TRUE
       /\ "nextAvailableIn" \in DOMAIN lastCall.status
       /\ lastCall.status.nextAvailableIn > 0
       /\ lastCall.status.nextAvailableIn <= 60000

\* a check made in the last millisecond of a minute in which the user has made
\* two calls under a ceiling of two
C1_Witness ==
  /\ lastCall.op = "checkLimit"
  /\ limits.requestsPerMinute = 2
  /\ callsInWindow(lastCall.user, now, 60000) = 2
  /\ now % 60000 = 59999
  /\ lastCall.status.isLimited

\* C9: checkLimit reports the first window, in the order minute, hour, day, whose
\* count has reached its ceiling: isLimited = true and nextAvailableIn is the
\* time left to that window's boundary, W - (t mod W)
C9_FirstWindowReported ==
  \A u \in Users :
    ( /\ lastCall.op = "checkLimit"
      /\ lastCall.user = u
      /\ firstWindowAtCeiling(u) # 0 )
    => lastCall.status =
         [isLimited |-> TRUE,
          nextAvailableIn |-> firstWindowAtCeiling(u) - (now % firstWindowAtCeiling(u))]

\* a check answered by the hour window while the day window is at its ceiling too
\* and the minute window is not
C9_Witness ==
  /\ lastCall.op = "checkLimit"
  /\ firstWindowAtCeiling(lastCall.user) = 3600000
  /\ callsInWindow(lastCall.user, now, 86400000) >= limits.requestsPerDay
  /\ lastCall.status.isLimited
  /\ lastCall.status.nextAvailableIn = 3600000 - (now % 3600000)

\* C10: when no window is at its ceiling checkLimit returns isLimited = false and,
\* for each window, remaining = ceiling - calls made in the current bucket; a user
\* who made no call has count 0, so under the defaults the result is 20 / 200 / 1000
C10_RemainingSnapshot ==
  \A u \in Users :
    ( /\ lastCall.op = "checkLimit"
      /\ lastCall.user = u
      /\ firstWindowAtCeiling(u) = 0 )
    => /\ lastCall.status =
            [isLimited |-> FALSE,
             remaining |->
               [requestsThisMinute |->
                  limits.requestsPerMinute - callsInWindow(u, now, 60000),
                requestsThisHour |->
                  limits.requestsPerHour - callsInWindow(u, now, 3600000),
                requestsThisDay |->
                  limits.requestsPerDay - callsInWindow(u, now, 86400000)]]
       /\ ( /\ recLog[u] = EmptyMap
            /\ limits.requestsPerMinute = 20
            /\ limits.requestsPerHour = 200
            /\ limits.requestsPerDay = 1000 )
          => lastCall.status.remaining =
               [requestsThisMinute |-> 20, requestsThisHour |-> 200,
                requestsThisDay |-> 1000]

\* a check under the defaults after one call in this minute and one in an
\* earlier hour of the same day
C10_Witness ==
  /\ lastCall.op = "checkLimit"
  /\ ~lastCall.status.isLimited
  /\ lastCall.status.remaining =
       [requestsThisMinute |-> 19, requestsThisHour |-> 199, requestsThisDay |-> 998]

----------------------------------------------------------------------------
(* What the trace of a call says *)

\* the positions in a trace of the events of one kind
positionsOf(trace, ev) == {i \in 1..Len(trace) : trace[i].ev = ev}

\* the positions in a trace of the chunks whose type is one of `types`
chunkPositions(trace, types) ==
  {i \in 1..Len(trace) : trace[i].ev = "chunk" /\ trace[i].type \in types}

Least(S) == CHOOSE x \in S : \A y \in S : x <= y
Greatest(S) == CHOOSE x \in S : \A y \in S : x >= y

\* usage.totalTokens of the last chunk of the trace whose usage is one of
\* `totals`; 0 when there is none
lastUsageAmong(trace, totals) ==
  LET P == {i \in positionsOf(trace, "chunk") :
              "usage" \in DOMAIN trace[i] /\ trace[i].usage \in totals}
  IN  IF P = {} THEN 0 ELSE trace[Greatest(P)].usage

\* the count a user's entry holds under `field` for the bucket `key`
countOf(ul, u, field, key) ==
  IF u \in DOMAIN ul THEN getCount(ul[u][field], key) ELSE 0

\* the limiter's counters of user u grow, from this state to the next, by one
\* request and by `tokens` tokens in the buckets that hold `now`
CountersGrowBy(u, tokens) ==
  /\ countOf(userLimits', u, "requestsPerMinute", minuteKeyOf(now))
       = countOf(userLimits, u, "requestsPerMinute", minuteKeyOf(now)) + 1
  /\ countOf(userLimits', u, "requestsPerHour", hourKeyOf(now))
       = countOf(userLimits, u, "requestsPerHour", hourKeyOf(now)) + 1
  /\ countOf(userLimits', u, "requestsPerDay", dayKeyOf(now))
       = countOf(userLimits, u, "requestsPerDay", dayKeyOf(now)) + 1
  /\ countOf(userLimits', u, "tokensPerMinute", minuteKeyOf(now))
       = countOf(userLimits, u, "tokensPerMinute", minuteKeyOf(now)) + tokens
  /\ countOf(userLimits', u, "tokensPerHour", hourKeyOf(now))
       = countOf(userLimits, u, "tokensPerHour", hourKeyOf(now)) + tokens
  /\ countOf(userLimits', u, "tokensPerDay", dayKeyOf(now))
       = countOf(userLimits, u, "tokensPerDay", dayKeyOf(now)) + tokens

\* the six counter maps of a user, empty for a user the limiter has not seen
countersOf(ul, u) ==
  [f \in {"requestsPerMinute", "requestsPerHour", "requestsPerDay",
          "tokensPerMinute", "tokensPerHour", "tokensPerDay"} |->
     IF u \in DOMAIN ul THEN ul[u][f] ELSE EmptyMap]

\* no recordRequest from this state to the next: every counter is as it was
CountersUnchanged ==
  /\ recLog' = recLog
  /\ \A u \in Users : countersOf(userLimits', u) = countersOf(userLimits, u)

\* a call through the manager that passed the gate and reached an adapter
Admitted(c, api) == c.api = api /\ ~c.gate.isLimited /\ c.adapter # ""

\* the call in slot id ends in this step
EndsNow(id) == calls'[id] # calls[id] /\ calls'[id].pc = "done"

\* `seconds` is the wait of a limited status, rounded up to whole seconds
WaitInSeconds(seconds, status) ==
  /\ "nextAvailableIn" \in DOMAIN status
  /\ (seconds - 1) * 1000 < status.nextAvailableIn
  /\ status.nextAvailableIn <= seconds * 1000

----------------------------------------------------------------------------
(* Claims about the manager's gate *)

\* C2: when checkLimit reports isLimited at the start of AIProviderManager.chat,
\* the call throws a rate-limit error that carries the wait, the adapter's chat
\* is not invoked, recordRequest is not called and the counters stay as they were
C2_ChatGate ==
  /\ [](\A id \in DOMAIN calls :
          (calls[id].api = "chat" /\ calls[id].gate.isLimited)
          => /\ calls[id].pc = "done"
             /\ calls[id].outcome = "thrown"
             /\ calls[id].result.kind = "rateLimit"
             /\ WaitInSeconds(calls[id].result.seconds, calls[id].gate)
             /\ positionsOf(calls[id].trace, "invoke") = {}
             /\ positionsOf(calls[id].trace, "record") = {})
  /\ [][\A id \in DOMAIN calls :
          (EndsNow(id) /\ calls'[id].api = "chat" /\ calls'[id].gate.isLimited)
          => userLimits' = userLimits /\ recLog' = recLog]_vars

\* a chat refused in the last millisecond of the minute in which the user's one
\* allowed request was recorded, while the adapter is registered
C2_Witness ==
  \E id \in DOMAIN calls :
    /\ calls[id].api = "chat"
    /\ calls[id].gate.isLimited
    /\ calls[id].outcome = "thrown"
    /\ calls[id].result.seconds = 1
    /\ now = MINUTE_MS - 1
    /\ defaultProvider \in providers

\* C8: when checkLimit reports isLimited, AIProviderManager.chatStream delivers
\* exactly one chunk, of type error and telling the wait, and returns normally;
\* the adapter's chatStream is not invoked and recordRequest is not called
C8_StreamGate ==
  /\ [](\A id \in DOMAIN calls :
          (calls[id].api = "chatStream" /\ calls[id].gate.isLimited)
          => /\ calls[id].pc = "done"
             /\ calls[id].outcome = "returned"
             /\ Len(calls[id].trace) = 1
             /\ calls[id].trace[1].ev = "chunk"
             /\ calls[id].trace[1].type = "error"
             /\ calls[id].trace[1].error.kind = "rateLimit"
             /\ WaitInSeconds(calls[id].trace[1].error.seconds, calls[id].gate))
  /\ [][\A id \in DOMAIN calls :
          (EndsNow(id) /\ calls'[id].api = "chatStream" /\ calls'[id].gate.isLimited)
          => userLimits' = userLimits /\ recLog' = recLog]_vars

\* a chatStream refused at the start of the minute in which the user's one
\* allowed request was recorded: the chunk tells a wait of 60 seconds
C8_Witness ==
  \E id \in DOMAIN calls :
    /\ calls[id].api = "chatStream"
    /\ calls[id].gate.isLimited
    /\ calls[id].outcome = "returned"
    /\ calls[id].trace = <<[ev |-> "chunk", type |-> "error",
                            error |-> [kind |-> "rateLimit", seconds |-> 60]]>>
    /\ defaultProvider \in providers

----------------------------------------------------------------------------
(* Claims about the chunks of an adapter's chatStream *)

\* C3: every chatStream of an adapter called with valid input delivers exactly
\* one terminal chunk (end or error), whatever the vendor does, and no chunk of
\* any type after it
C3_ExactlyOneTerminal ==
  \A id \in DOMAIN calls :
    LET c == calls[id]
        terminal == chunkPositions(c.trace, {"end", "error"})
    IN  (c.api = "adapterStream" /\ c.adapter \in VendorAdapters
           /\ c.result.kind # "validation")
        => /\ Cardinality(terminal) <= 1
           /\ \A t \in terminal : \A i \in positionsOf(c.trace, "chunk") : i <= t
           /\ c.pc = "done" => Cardinality(terminal) = 1

\* C4: every chatStream of an adapter called with valid input delivers exactly
\* one start chunk, as its first chunk and before its first HTTP request; when the
\* request is issued a second time, the start chunk is the only chunk so far
C4_ExactlyOneStart ==
  \A id \in DOMAIN calls :
    LET c == calls[id]
        start == chunkPositions(c.trace, {"start"})
        chunks == positionsOf(c.trace, "chunk")
        http == positionsOf(c.trace, "http")
    IN  (c.api = "adapterStream" /\ c.adapter \in VendorAdapters
           /\ c.result.kind # "validation")
        => /\ Cardinality(start) = 1
           /\ start = {Least(chunks)}
           /\ http # {}
           /\ Least(chunks) < Least(http)
           /\ \A h \in http \ {Least(http)} : {i \in chunks : i < h} = start

\* an OpenAI stream whose first request was refused for its temperature and
\* whose second request was answered with text and the end marker
C4_Witness ==
  \E id \in DOMAIN calls :
    /\ calls[id].api = "adapterStream"
    /\ calls[id].adapter = "openai"
    /\ calls[id].pc = "done"
    /\ Cardinality(positionsOf(calls[id].trace, "http")) = 2
    /\ chunksOf(calls[id].trace) = <<Chunk("start"), Chunk("text"), Chunk("end")>>

----------------------------------------------------------------------------
(* Claims about what the manager records *)

\* C5: a chat that passed the gate invokes the adapter's chat exactly once; when
\* the adapter resolves, recordRequest is called once, after it, with
\* response.usage.totalTokens (0 when usage is absent), and the response is what
\* the call returns; when the adapter rejects, the call throws the rejection and
\* nothing is recorded
C5_ChatRecordsOnce ==
  /\ [](\A id \in DOMAIN calls :
          LET c == calls[id]
              invoked == positionsOf(c.trace, "invoke")
              settled == positionsOf(c.trace, "settle")
              recorded == positionsOf(c.trace, "record")
          IN  Admitted(c, "chat")
              => /\ Cardinality(invoked) = 1
                 /\ c.pc # "done" => recorded = {} /\ settled = {}
                 /\ (c.pc = "done" /\ c.outcome = "returned")
                    => /\ c.result.kind = "response"
                       /\ Cardinality(settled) = 1
                       /\ recorded = {Len(c.trace)}
                       /\ \A i \in invoked : \A j \in settled : i < j /\ j < Len(c.trace)
                       /\ c.trace[Len(c.trace)].tokens =
                            IF "usage" \in DOMAIN c.result.response
                              THEN c.result.response.usage ELSE 0
                 /\ (c.pc = "done" /\ c.outcome = "thrown")
                    => /\ c.result.kind \in {"adapter", "validation"}
                       /\ recorded = {})
  /\ [][\A id \in DOMAIN calls :
          (EndsNow(id) /\ Admitted(calls'[id], "chat"))
          => IF calls'[id].outcome = "returned"
               THEN CountersGrowBy(calls'[id].user,
                                   calls'[id].trace[Len(calls'[id].trace)].tokens)
               ELSE CountersUnchanged]_vars

\* an OpenAI chat answered, after one retry, with a body that counts 7 tokens
C5_Witness ==
  \E id \in DOMAIN calls :
    /\ Admitted(calls[id], "chat")
    /\ calls[id].adapter = "openai"
    /\ calls[id].outcome = "returned"
    /\ Cardinality(positionsOf(calls[id].trace, "http")) = 2
    /\ calls[id].trace[Len(calls[id].trace)] = Recorded(7)
    /\ countOf(userLimits, calls[id].user, "tokensPerMinute", minuteKeyOf(now)) = 7

\* C6: a chatStream that passed the gate and completes calls recordRequest
\* exactly once, after the terminal chunk of the adapter's stream was delivered,
\* never before or between chunks
C6_RecordAfterTerminal ==
  \A id \in DOMAIN calls :
    LET c == calls[id]
        recorded == positionsOf(c.trace, "record")
        terminal == chunkPositions(c.trace, {"end", "error"})
    IN  (Admitted(c, "chatStream") /\ c.adapter \in VendorAdapters)
        => /\ \A r \in recorded : \A i \in positionsOf(c.trace, "chunk") : i < r
           /\ c.pc # "done" => recorded = {}
           /\ (c.pc = "done" /\ c.outcome = "returned")
              => /\ Cardinality(recorded) = 1
                 /\ \E t \in terminal : \A r \in recorded : t < r

\* C7: the count AIProviderManager.chatStream passes to recordRequest is the
\* usage.totalTokens of the last chunk that reported usage, 0 when none did
C7_LastReportedUsage ==
  \A id \in DOMAIN calls :
    LET c == calls[id]
    IN  (Admitted(c, "chatStream") /\ c.pc = "done" /\ c.outcome = "returned")
        => c.trace[Len(c.trace)] = Recorded(lastUsageAmong(c.trace, ChunkTotals))

\* C7, as the code has it: the count passed to recordRequest is the
\* usage.totalTokens of the last chunk that reported a total other than 0, 0 when
\* none did; the user's token counters grow by that count once, and never by the
\* sum of the updates
C7_LastNonZeroUsage ==
  /\ [](\A id \in DOMAIN calls :
          LET c == calls[id]
          IN  (Admitted(c, "chatStream") /\ c.pc = "done" /\ c.outcome = "returned")
              => /\ positionsOf(c.trace, "record") = {Len(c.trace)}
                 /\ c.trace[Len(c.trace)] =
                      Recorded(lastUsageAmong(c.trace, ChunkTotals \ {0})))
  /\ [][\A id \in DOMAIN calls :
          (EndsNow(id) /\ Admitted(calls'[id], "chatStream")
             /\ calls'[id].outcome = "returned")
          => CountersGrowBy(calls'[id].user,
                            lastUsageAmong(calls'[id].trace, ChunkTotals \ {0}))]_vars

\* a stream whose chunks reported 7 and then 12 tokens: 12 are recorded
C7_Witness ==
  \E id \in DOMAIN calls :
    /\ Admitted(calls[id], "chatStream")
    /\ calls[id].outcome = "returned"
    /\ chunksOf(calls[id].trace) =
         <<ChunkWithUsage("text", 7), ChunkWithUsage("text", 12)>>
    /\ calls[id].trace[Len(calls[id].trace)] = Recorded(12)
    /\ countOf(userLimits, calls[id].user, "tokensPerDay", dayKeyOf(now)) = 12

----------------------------------------------------------------------------
(* Claims about recordRequest *)

\* C11: recordRequest(user, tokenCount) adds exactly 1 to the user's request
\* count in the current minute, hour and day buckets whatever tokenCount is; it
\* adds exactly tokenCount to the token count of those buckets when
\* tokenCount > 0 and leaves every token count as it was when tokenCount <= 0
C11_RecordIncrements ==
  [][\A u \in Users :
       recLog'[u] # recLog[u]
       => /\ lastCall'.op = "recordRequest"
          /\ lastCall'.user = u
          /\ CountersGrowBy(u, IF lastCall'.tokenCount > 0
                                 THEN lastCall'.tokenCount ELSE 0)
          /\ lastCall'.tokenCount <= 0
             => /\ countersOf(userLimits', u).tokensPerMinute
                     = countersOf(userLimits, u).tokensPerMinute
                /\ countersOf(userLimits', u).tokensPerHour
                     = countersOf(userLimits, u).tokensPerHour
                /\ countersOf(userLimits', u).tokensPerDay
                     = countersOf(userLimits, u).tokensPerDay]_vars

\* a second request of the minute recorded with a negative count after one
\* recorded with 7 tokens: two requests and 7 tokens in the bucket
C11_Witness ==
  /\ lastCall.op = "recordRequest"
  /\ lastCall.tokenCount < 0
  /\ countOf(userLimits, lastCall.user, "requestsPerMinute", minuteKeyOf(now)) = 2
  /\ countOf(userLimits, lastCall.user, "tokensPerMinute", minuteKeyOf(now)) = 7
  /\ countOf(userLimits, lastCall.user, "tokensPerDay", dayKeyOf(now)) = 7

----------------------------------------------------------------------------
(* Claims about the adapters' validation and retry *)

\* a call made on an adapter directly
OnAdapter(c) == c.api \in {"adapterChat", "adapterStream"} /\ c.adapter \in VendorAdapters

\* C12: chat and chatStream of every adapter, called with no message, a message
\* without role or content, no model, a temperature outside [0, 2] or maxTokens
\* below 1, fail with a validation error; no HTTP request is issued and no chunk,
\* not even start, is delivered
C12_ValidationFirst ==
  \A id \in DOMAIN calls :
    LET c == calls[id]
    IN  (OnAdapter(c) /\ c.input \in InvalidInputs)
        => /\ c.pc = "done"
           /\ c.outcome = "thrown"
           /\ c.result.kind = "validation"
           /\ positionsOf(c.trace, "http") = {}
           /\ positionsOf(c.trace, "chunk") = {}

\* chatStream of the Google adapter refused, before anything else happened,
\* for a temperature of 2.5
C12_Witness ==
  \E id \in DOMAIN calls :
    /\ OnAdapter(calls[id])
    /\ calls[id].adapter = "google"
    /\ calls[id].api = "adapterStream"
    /\ "temperature" \in DOMAIN calls[id].input.options
    /\ calls[id].input.options.temperature = 25
    /\ calls[id].outcome = "thrown"
    /\ calls[id].trace = <<AdapterInvoked, AdapterSettled>>

\* a request body without its temperature
withoutTemperature(b) == [k \in DOMAIN b \ {"temperature"} |-> b[k]]

\* the positions of the responses that were not 2xx
refusals(trace) ==
  {i \in positionsOf(trace, "response") :
     trace[i].outcome \in {"non2xxTemperature", "non2xxOther"}}

\* the first request of the call was refused because the temperature is
\* unsupported, and the caller had supplied a temperature
TemperatureRefused(c) ==
  /\ "temperature" \in DOMAIN c.input.options
  /\ positionsOf(c.trace, "response") # {}
  /\ c.trace[Least(positionsOf(c.trace, "response"))].outcome = "non2xxTemperature"

\* C13: when the first request of an adapter's chat is refused with a text
\* saying the temperature is unsupported and the caller supplied a temperature,
\* exactly one more request is issued, with the same body minus the
\* temperature, and a 2xx answer to it is returned as the response of the call
C13_TemperatureRetry ==
  \A id \in DOMAIN calls :
    LET c == calls[id]
        http == positionsOf(c.trace, "http")
        response == positionsOf(c.trace, "response")
    IN  (OnAdapter(c) /\ c.api = "adapterChat" /\ TemperatureRefused(c))
        => /\ Cardinality(http) = 2
           /\ c.trace[Greatest(http)].body = withoutTemperature(c.trace[Least(http)].body)
           /\ (Cardinality(response) = 2 /\ c.trace[Greatest(response)].outcome = "ok")
              => c.outcome = "returned" /\ c.result.kind = "response"

\* C14: a chat or chatStream of an adapter issues at most two HTTP requests; the
\* second follows a refusal of the first that names the temperature as
\* unsupported; every other refusal, and a refusal of the second request, ends
\* the call with a rejection (chat) or an error chunk (chatStream) and no request
\* follows it
C14_BoundedRetry ==
  \A id \in DOMAIN calls :
    LET c == calls[id]
        http == positionsOf(c.trace, "http")
        response == positionsOf(c.trace, "response")
        chunks == positionsOf(c.trace, "chunk")
    IN  OnAdapter(c)
        => /\ Cardinality(http) <= 2
           /\ Cardinality(http) = 2
              => /\ TemperatureRefused(c)
                 /\ Least(response) < Greatest(http)
           /\ \A r \in refusals(c.trace) :
                \/ /\ r = Least(response)
                   /\ TemperatureRefused(c)
                   /\ Cardinality({h \in http : h > r}) = 1
                \/ /\ {h \in http : h > r} = {}
                   /\ c.pc = "done"
                   /\ IF c.api = "adapterChat"
                        THEN c.outcome = "thrown" /\ c.result.kind = "adapter"
                        ELSE /\ c.outcome = "returned"
                             /\ chunks # {}
                             /\ Greatest(chunks) > r
                             /\ c.trace[Greatest(chunks)].type = "error"

\* an OpenAI chatStream whose retry without temperature was refused as well:
\* two requests, then the error chunk
C14_Witness ==
  \E id \in DOMAIN calls :
    /\ OnAdapter(calls[id])
    /\ calls[id].adapter = "openai"
    /\ calls[id].api = "adapterStream"
    /\ Cardinality(positionsOf(calls[id].trace, "http")) = 2
    /\ Cardinality(refusals(calls[id].trace)) = 2
    /\ chunksOf(calls[id].trace) = <<Chunk("start"), Chunk("error")>>

----------------------------------------------------------------------------
(* Claims about the order of the manager's checks *)

\* a call through the manager is made in this step, in slot id
BeginsNow(id) ==
  /\ Free(id)
  /\ calls'[id] # calls[id]
  /\ calls'[id].api \in {"chat", "chatStream"}

\* the provider a call names, or the default when it names none, is not
\* registered when the call is made
UnknownProvider(c) ==
  (IF c.provider = "" THEN defaultProvider ELSE c.provider) \notin providers

\* C15: a chat or chatStream through the manager that names a provider that is
\* not registered, or names none while the default is not registered, fails with
\* the manager's unknown-provider error whatever the rate-limit state of the
\* user; the adapter and recordRequest are not reached
C15_ResolutionFirst ==
  [][\A id \in DOMAIN calls :
       (BeginsNow(id) /\ UnknownProvider(calls'[id]))
       => /\ calls'[id].pc = "done"
          /\ calls'[id].outcome = "thrown"
          /\ calls'[id].result.kind = "notRegistered"
          /\ positionsOf(calls'[id].trace, "invoke") = {}
          /\ CountersUnchanged]_vars

----------------------------------------------------------------------------
(* The message normalizer                                                    *)

Normalized == lastCall.op = "normalizeMessages"

\* C17: normalizeMessages returns a list for every inbound array, whatever
\* its entries are (objects of any shape, numbers, strings, null, undefined):
\* it never throws
C17_NeverThrows == Normalized => lastCall.result.outcome = "returned"

\* the positions of the inbound entries whose resolved content is not empty
\* once trimmed
keptPositions(msgs) ==
  {i \in 1..Len(msgs) : trim(resolveContent(msgs[i])) # <<>>}

\* the i-th smallest member of a set of positions
RECURSIVE nth(_, _)
nth(S, i) == IF i = 1 THEN Least(S) ELSE nth(S \ {Least(S)}, i - 1)

\* C18: whenever normalizeMessages returns, its output is the input with
\* some entries removed, in the input's order: the removed entries are
\* exactly those whose resolved content trims to the empty string, and every
\* output entry has a role among system, user and assistant (the inbound
\* role when it is one of them, user otherwise) and a content that is
\* non-empty and equal to its own trim
C18_WellFormed ==
  (Normalized /\ lastCall.result.outcome = "returned") =>
    LET msgs == lastCall.msgs
        out == lastCall.result.value
        kept == keptPositions(msgs)
    IN  /\ Len(out) = Cardinality(kept)
        /\ Len(out) <= Len(msgs)
        /\ \A j \in 1..Len(out) :
             LET m == msgs[nth(kept, j)]
             IN  /\ out[j].role \in allowed
                 /\ out[j].role =
                      IF isString(get(m, "role")) /\ get(m, "role").v \in allowed
                        THEN get(m, "role").v ELSE user
                 /\ out[j].content # <<>>
                 /\ out[j].content = trim(out[j].content)
                 /\ Head(out[j].content) \notin Whitespace
                 /\ out[j].content[Len(out[j].content)] \notin Whitespace
                 /\ out[j].content = trim(resolveContent(m))

\* a batch that was cut down and had a role replaced: an entry with a blank
\* content before an entry whose role is not one of the three
C18_Witness ==
  /\ Normalized
  /\ lastCall.result.outcome = "returned"
  /\ Len(lastCall.msgs) = 2
  /\ Len(lastCall.result.value) = 1
  /\ get(lastCall.msgs[1], "content") = JStr(<<" ", " ">>)
  /\ get(lastCall.msgs[2], "role") = JStr(<<"x">>)
  /\ lastCall.result.value[1] = [role |-> user, content |-> <<"h", "i">>]

\* the content the stated rules give: (a) a string content, (b) a string
\* message, (c) the parts of content.parts concatenated, (d) the parts of an
\* array content joined with newlines, (e) a string content.text, (f) a
\* string text, and the empty string when none applies
statedContent(m) ==
  LET content == get(m, "content")
  IN  IF isString(content) THEN content.v
      ELSE IF isString(get(m, "message")) THEN get(m, "message").v
      ELSE IF content.t = "obj" /\ get(content, "parts").t = "arr"
        THEN joined(partStrings(get(content, "parts").v), <<>>)
      ELSE IF content.t = "arr" THEN joined(partStrings(content.v), <<"\n">>)
      ELSE IF content.t = "obj" /\ isString(get(content, "text"))
        THEN get(content, "text").v
      ELSE IF isString(get(m, "text")) THEN get(m, "text").v
      ELSE <<>>

\* C19: the content of an entry is resolved by the first rule that applies
\* among (a) string content, (b) string message, (c) content.parts
\* concatenated, (d) array content joined with newlines, (e) content.text,
\* (f) top-level text, and is the empty string when none applies, in
\* particular for an object content that has neither parts nor text: the
\* output holds, in order, the entries whose content so resolved is not
\* blank, each with that content trimmed
C19_ResolutionOrder ==
  (Normalized /\ lastCall.result.outcome = "returned") =>
    LET msgs == lastCall.msgs
        stated == SelectSeq([i \in 1..Len(msgs) |-> trim(statedContent(msgs[i]))],
                            LAMBDA c : c # <<>>)
    IN  [j \in 1..Len(lastCall.result.value) |-> lastCall.result.value[j].content]
          = stated

----------------------------------------------------------------------------
(* The chat endpoint                                                         *)

\* a client's request begins at this step in slot id
RequestBegins(id) ==
  /\ Free(id)
  /\ calls'[id] # calls[id]
  /\ calls'[id].api \in {"post", "postStream"}

\* C16: the usage recorded by a user's requests through the chat endpoint is
\* seen by the rate-limit check of that user's later requests: a request that
\* begins when the user has completed requestsPerMinute requests in the
\* current minute bucket is answered at once, without a call to the adapter
\* or the vendor, with 429 (or with the 400, 403 or 500 of a body that is
\* refused before the limiter is reached)
C16_CountersPersist ==
  [][\A id \in DOMAIN calls :
       ( /\ RequestBegins(id)
         /\ calls'[id].user # ""
         /\ callsInWindow(calls'[id].user, now, MINUTE_MS) >= limits.requestsPerMinute )
       => /\ calls'[id].pc = "done"
          /\ calls'[id].result.status \in {429, 400, 403, 500}
          /\ positionsOf(calls'[id].trace, "invoke") = {}
          /\ positionsOf(calls'[id].trace, "http") = {}]_vars

\* C20: once the client has aborted a request that is in flight, the adapter
\* reads no more from the vendor and recordRequest is not called for the
\* request: the counters of every user stay as they are
C20_CancelledNoQuota ==
  [][\A id \in DOMAIN calls :
       (~Free(id) /\ cancelled(calls[id]))
       => /\ calls'[id].reads = calls[id].reads
          /\ positionsOf(calls'[id].trace, "record") = {}
          /\ CountersUnchanged]_vars

----------------------------------------------------------------------------
(* Claims about what the limiter's answers depend on                         *)

\* token totals a user's counters could hold in place of the ones they hold:
\* none, one, and more than the default tokensPerDay
OtherTokenTotals == {0, 1, DefaultTokensPerDay + 1}

\* the user's entry e with the token counters of the buckets of time t set to n
withTokens(e, t, n) ==
  [e EXCEPT !.tokensPerMinute = [k \in {minuteKeyOf(t)} |-> n],
            !.tokensPerHour = [k \in {hourKeyOf(t)} |-> n],
            !.tokensPerDay = [k \in {dayKeyOf(t)} |-> n]]

CheckFollowsRecord ==
  /\ lastCall.op = "recordRequest"
  /\ lastCall'.op = "checkLimit"
  /\ lastCall'.user = lastCall.user
  /\ ~lastCall.statusBefore.isLimited
  /\ ~lastCall'.status.isLimited

\* the remaining request counts are one below those before the record
RequestsRemainingDropByOne ==
  LET before == lastCall.statusBefore.remaining
      after == lastCall'.status.remaining
  IN  /\ after.requestsThisMinute = before.requestsThisMinute - 1
      /\ after.requestsThisHour = before.requestsThisHour - 1
      /\ after.requestsThisDay = before.requestsThisDay - 1

\* C22: recordRequest(u, n) followed at once by checkLimit(u), the user not
\* limited before or after: the remaining counts checkLimit reports are those
\* before the record less the recorded amount, each remaining request count
\* less 1 and each remaining token count less n
C22_RecordThenCheck ==
  [][CheckFollowsRecord
     => /\ RequestsRemainingDropByOne
        /\ \A f \in {"tokensThisMinute", "tokensThisHour", "tokensThisDay"} :
             /\ f \in DOMAIN lastCall'.status.remaining
             /\ f \in DOMAIN lastCall.statusBefore.remaining
             /\ lastCall'.status.remaining[f]
                  = lastCall.statusBefore.remaining[f] - lastCall.tokenCount]_vars

----------------------------------------------------------------------------
(* Claims about the answers of the chat endpoint                             *)

\* C23: a request to the chat endpoint by a user who is rate-limited (the
\* user has completed requestsPerMinute requests in the current minute bucket)
\* is answered 429 with retryAfter = ceil(nextAvailableIn / 1000), a whole
\* number of seconds from 1 to 60 for the minute window, and never reaches the
\* adapter or the vendor (a body refused before the limiter is reached is
\* answered 400, 403 or 500)
C23_RetryAfter ==
  [][\A id \in DOMAIN calls :
       ( /\ RequestBegins(id)
         /\ calls'[id].user # ""
         /\ callsInWindow(calls'[id].user, now, MINUTE_MS) >= limits.requestsPerMinute )
       => LET answer == calls'[id].result
          IN  /\ calls'[id].pc = "done"
              /\ answer.status \in {429, 400, 403, 500}
              /\ answer.status = 429
                   => /\ answer.retryAfter = ceilSeconds(MINUTE_MS - (now % MINUTE_MS))
                      /\ answer.retryAfter >= 1
                      /\ answer.retryAfter <= 60
              /\ positionsOf(calls'[id].trace, "http") = {}]_vars

\* what a request enqueued on the stream of its response, in order: the
\* chunks passed to the callback and the frames handleStream adds
framesOf(c) == SelectSeq(c.trace, LAMBDA x : x.ev \in {"chunk", "frame"})

\* the request in slot id was answered with a streamed response that has been
\* closed, and the client did not abort it
StreamedAnswerClosed(id) ==
  /\ calls[id].api = "postStream"
  /\ calls[id].pc = "done"
  /\ calls[id].adapter # ""
  /\ ~cancelled(calls[id])

\* C24: the frames of every streamed response of the chat endpoint are its
\* chunks in the order of delivery followed by the terminator [DONE], which
\* occurs exactly once and is the last frame, also when the adapter's
\* chatStream rejects and an error frame is made up for it
C24_TerminatorLast ==
  \A id \in DOMAIN calls :
    StreamedAnswerClosed(id)
    => LET frames == framesOf(calls[id])
       IN  /\ frames # <<>>
           /\ frames[Len(frames)] = Frame("[DONE]")
           /\ Cardinality({i \in 1..Len(frames) : frames[i] = Frame("[DONE]")}) = 1
           /\ \A i \in 1..(Len(frames) - 1) : frames[i].ev = "chunk" \/ frames[i] = Frame("error")

----------------------------------------------------------------------------
(* Claims about the model catalog                                            *)

\* a listModels call has returned or thrown
ListModelsDone == lastCall.op = "listModels" /\ lastCall.pc = "done"

\* the catalog query failed: no key is configured, the fetch failed, or the
\* vendor answered non-2xx
CatalogQueryFailed ==
  ~lastCall.hasKey \/ lastCall.query \in {"networkError", "non2xx"}

\* C25: listModels never throws, and whenever the catalog query fails (no API
\* key, network error, non-2xx answer) it returns the adapter's built-in
\* list, the one getAvailableModels returns
C25_FallbackList ==
  ListModelsDone
  => /\ lastCall.outcome = "returned"
     /\ CatalogQueryFailed => lastCall.models = getAvailableModels(lastCall.adapter)

----------------------------------------------------------------------------
(* Claims about fragments of the vendor stream that do not parse             *)

\* a call without the history of the fragments that did not parse
withoutMalformed(c) ==
  [c EXCEPT !.trace = SelectSeq(@, LAMBDA x : x # Malformed)]

\* the lines of a read that parse
parsing(lines) == SelectSeq(lines, LAMBDA l : l # "malformed")

\* C26: a fragment of the vendor stream that does not parse delivers no chunk
\* and does not end the stream: whatever a read holds, the adapter delivers
\* what it delivers for the same read without the bad fragments and goes on
\* reading, so the content that follows is delivered as text chunks, and the
\* end of the body is then handled as it is without them
C26_MalformedSkipped ==
  \A id \in DOMAIN calls :
    (OnAdapter(calls[id]) /\ calls[id].pc = "read")
    => \A lines \in ReadBatches :
         LET c == calls[id]
             bad == streamAfterRead(c, lines)
             good == streamAfterRead(c, parsing(lines))
         IN  /\ bad.pc = "read"
             /\ withoutMalformed(bad) = withoutMalformed(good)
             /\ chunksOf(streamAfterRead(c, <<"malformed">>).trace) = chunksOf(c.trace)
             /\ chunksOf(streamAfterRead(c, <<"malformed", "content">>).trace)
                  = Append(chunksOf(c.trace), Chunk("text"))
             /\ withoutMalformed(streamAfterDone(bad)) = withoutMalformed(streamAfterDone(good))

\* a stream of the Google adapter that met a bad fragment, delivered the
\* content that followed it and ended with its end chunk
C26_Witness ==
  \E id \in DOMAIN calls :
    LET c == calls[id]
    IN  /\ OnAdapter(c)
        /\ c.adapter = "google"
        /\ c.pc = "done"
        /\ c.outcome = "returned"
        /\ \E i, j, k \in 1..Len(c.trace) :
             /\ i < j /\ j < k
             /\ c.trace[i] = Malformed
             /\ c.trace[j] = Chunk("text")
             /\ c.trace[k] = Chunk("end")
        /\ chunkPositions(c.trace, {"error"}) = {}

----------------------------------------------------------------------------
(* Claims about the sweep                                                    *)

\* the key of the bucket of a counter map that holds time t
currentKey(field, t) ==
  IF field \in {"requestsPerMinute", "tokensPerMinute"} THEN minuteKeyOf(t)
  ELSE IF field \in {"requestsPerHour", "tokensPerHour"} THEN hourKeyOf(t)
  ELSE dayKeyOf(t)

CounterFields ==
  {"requestsPerMinute", "requestsPerHour", "requestsPerDay",
   "tokensPerMinute", "tokensPerHour", "tokensPerDay"}

\* C27: a sweep run now removes no entry of the current minute, hour or day
\* bucket of any user and drops no user who has such an entry, so checkLimit
\* and getRemainingUsage answer after the sweep as they answer without it
C27_SweepKeepsCurrent ==
  LET swept == cleanup(userLimits, now)
  IN  \A u \in Users :
        /\ u \in DOMAIN userLimits
           => \A f \in CounterFields :
                currentKey(f, now) \in DOMAIN userLimits[u][f]
                => /\ u \in DOMAIN swept
                   /\ currentKey(f, now) \in DOMAIN swept[u][f]
                   /\ swept[u][f][currentKey(f, now)] = userLimits[u][f][currentKey(f, now)]
        /\ checkLimit(swept, u, now)[2] = checkLimit(userLimits, u, now)[2]
        /\ remainingUsage(getUserLimit(swept, u, now)[u], now)
             = remainingUsage(getUserLimit(userLimits, u, now)[u], now)

\* the sweep has run an hour after a user's first request and just after the
\* second: the entry of the first minute is gone, the entry of the current
\* minute is there, and a check counts it
C27_Witness ==
  \E u \in Users :
    /\ now = HOUR_MS
    /\ u \in DOMAIN userLimits
    /\ getCount(recLog[u], 0) = 1
    /\ 0 \notin DOMAIN userLimits[u].requestsPerMinute
    /\ getCount(userLimits[u].requestsPerMinute, minuteKeyOf(now)) = 1
    /\ lastCall.op = "checkLimit"
    /\ lastCall.user = u
    /\ "remaining" \in DOMAIN lastCall.status
    /\ lastCall.status.remaining.requestsThisMinute = limits.requestsPerMinute - 1

(* C28: the calls of one user that pass the gate and reach an adapter with   *)
(* their check in one minute bucket are never more than requestsPerMinute,   *)
(* however the calls overlap                                                 *)
(* (counted over the behaviours in which every admitted call that has        *)
(* completed made its recordRequest)                                         *)
C28_NoOverAdmission ==
  (/\ lastCall.op = "calls"
   /\ \A id \in DOMAIN calls :
        (calls[id].pc = "done" /\ positionsOf(calls[id].trace, "invoke") # {})
          => positionsOf(calls[id].trace, "record") # {})
    => \A b \in DOMAIN lastCall.admitted :
         lastCall.admitted[b] <= limits.requestsPerMinute

\* the request and the token counters of a user, summed over the buckets of
\* one granularity
RECURSIVE sumOf(_)
sumOf(map) ==
  IF DOMAIN map = {} THEN 0
  ELSE LET k == CHOOSE x \in DOMAIN map : TRUE
       IN  map[k] + sumOf([j \in DOMAIN map \ {k} |-> map[j]])

\* the calls that made their recordRequest, and the tokens they recorded
recordedCalls == {id \in DOMAIN calls : \E i \in DOMAIN calls[id].trace :
                                          calls[id].trace[i].ev = "record"}
recordedTokens(id) ==
  LET i == CHOOSE j \in DOMAIN calls[id].trace : calls[id].trace[j].ev = "record"
      n == calls[id].trace[i].tokens
  IN  IF n > 0 THEN n ELSE 0

RECURSIVE tokensOver(_)
tokensOver(ids) ==
  IF ids = {} THEN 0
  ELSE LET id == CHOOSE x \in ids : TRUE
       IN  recordedTokens(id) + tokensOver(ids \ {id})

AllCompleted == \A id \in DOMAIN calls : ~InFlight(id)

\* the admitted calls that have returned
admittedReturned ==
  {id \in DOMAIN calls : /\ calls[id].pc = "done"
                         /\ calls[id].outcome = "returned"
                         /\ positionsOf(calls[id].trace, "invoke") # {}}

\* C29: once the overlapping calls of a user have all completed, every admitted
\* call that returned has made one recordRequest, the user's request counters
\* of each granularity, summed over their buckets, have grown by the number of
\* those calls, and the token counters by the sum of the positive token counts
\* they recorded (a call whose adapter failed records nothing)
C29_ExactIncrements ==
  (lastCall.op = "calls" /\ AllCompleted)
    => /\ recordedCalls = admittedReturned
       /\ \A u \in ManagerUsers :
            LET e == getUserLimit(userLimits, u, now)[u]
            IN  /\ \A f \in {"requestsPerMinute", "requestsPerHour", "requestsPerDay"} :
                     sumOf(e[f]) = Cardinality(recordedCalls)
                /\ \A f \in {"tokensPerMinute", "tokensPerHour", "tokensPerDay"} :
                     sumOf(e[f]) = tokensOver(recordedCalls)

\* three calls that overlapped have all returned and recorded, with tokens
C29_Witness ==
  /\ lastCall.op = "calls"
  /\ lastCall.overlapped
  /\ AllCompleted
  /\ Cardinality(recordedCalls) = Cardinality(CallSlots)
  /\ tokensOver(recordedCalls) > 0
  /\ \E id \in recordedCalls : calls[id].trace[Len(calls[id].trace)].tokens = 0

\* the calls of the user have run one at a time, each checked and recorded
\* before the next was checked
OneAtATime ==
  /\ lastCall.op = "calls"
  /\ ~lastCall.overlapped
  /\ \A id \in DOMAIN calls :
       (calls[id].pc = "done" /\ positionsOf(calls[id].trace, "invoke") # {})
         => positionsOf(calls[id].trace, "record") # {}

\* C30: when the calls of a user run one at a time under the clock, the calls
\* admitted by checks of one minute bucket are never more than
\* requestsPerMinute, and those of two consecutive minute buckets never more
\* than twice requestsPerMinute
C30_FixedBucketBound ==
  OneAtATime
    => \A b \in DOMAIN lastCall.admitted :
         /\ lastCall.admitted[b] <= limits.requestsPerMinute
         /\ lastCall.admitted[b] + getCount(lastCall.admitted, b + 1)
              <= 2 * limits.requestsPerMinute

\* one at a time, the user was admitted requestsPerMinute times in a minute
\* bucket and as often in the next one, and was refused by the gate once
C30_Witness ==
  /\ OneAtATime
  /\ AllCompleted
  /\ \E b \in DOMAIN lastCall.admitted :
       /\ lastCall.admitted[b] = limits.requestsPerMinute
       /\ getCount(lastCall.admitted, b + 1) = limits.requestsPerMinute
  /\ \E id \in DOMAIN calls :
       calls[id].pc = "done" /\ positionsOf(calls[id].trace, "invoke") = {}

\* C31: when checkLimit refuses a user now with nextAvailableIn = d, and the
\* user records nothing in between, checkLimit of the user at now + d does not
\* refuse
C31_WaitSuffices ==
  \A u \in Users :
    LET first == checkLimit(userLimits, u, now)
    IN  first[2].isLimited
          => ~checkLimit(first[1], u, now + first[2].nextAvailableIn)[2].isLimited

\* the window and the horizon, in windows, of each of the six counters
horizonOf(f) ==
  CASE f \in {"requestsPerMinute", "tokensPerMinute"} -> <<MINUTE_MS, KeepMinutes>>
    [] f \in {"requestsPerHour", "tokensPerHour"} -> <<HOUR_MS, KeepHours>>
    [] f \in {"requestsPerDay", "tokensPerDay"} -> <<DAY_MS, KeepDays>>

\* C32: just after a sweep no counter of any user, request or token, per
\* minute, hour or day, holds a bucket entry older than its horizon
C32_RetentionHorizon ==
  [][Cleanup
       => \A u \in DOMAIN userLimits' : \A f \in CounterFields :
            \A k \in DOMAIN userLimits'[u][f] :
              ~olderThan(now', k, horizonOf(f)[1], horizonOf(f)[2])]_vars

\* the streaming calls that passed the gate, reached an adapter of the
\* repository and are over
StreamedThrough ==
  {id \in DOMAIN calls : /\ calls[id].api \in {"chatStream", "postStream"}
                         /\ calls[id].pc = "done"
                         /\ ~calls[id].gate.isLimited
                         /\ calls[id].adapter \in VendorAdapters
                         /\ positionsOf(calls[id].trace, "invoke") # {}}

\* C33: a streaming call that passed the gate and whose adapter returned has
\* made exactly one recordRequest, also when the last chunk delivered was an
\* error chunk; the adapter returns whenever its arguments are valid and the
\* callback does not throw, and a call whose adapter rejected has recorded nothing
C33_ErrorStreamRecorded ==
  \A id \in StreamedThrough :
    LET c == calls[id]
        recorded == positionsOf(c.trace, "record")
        chunks == chunksOf(c.trace)
    IN  /\ Cardinality(recorded) <= 1
        /\ ~cancelled(c) => (recorded # {} <=> validate(c.input))
        /\ c.api = "chatStream" => (recorded # {} <=> c.outcome = "returned")
        /\ (~cancelled(c) /\ chunks # <<>> /\ chunks[Len(chunks)].type = "error")
             => Cardinality(recorded) = 1
        /\ ~validate(c.input) => (recorded = {} /\ chunks = <<>>)

\* a stream through the manager ended with an error chunk after a refusal of
\* the vendor, and the request was recorded
C33_Witness ==
  \E id \in StreamedThrough :
    LET c == calls[id]
        chunks == chunksOf(c.trace)
    IN  /\ c.api = "chatStream"
        /\ c.outcome = "returned"
        /\ chunks # <<>>
        /\ chunks[Len(chunks)].type = "error"
        /\ \E i \in positionsOf(c.trace, "response") : c.trace[i].outcome = "non2xxOther"
        /\ positionsOf(c.trace, "record") = {Len(c.trace)}
        /\ recordsMade(c.user) >= 1

\* the counts of the buckets current now in an entry, minute, hour and day
currentCounts(e, kind) ==
  IF kind = "requests"
    THEN <<getCount(e.requestsPerMinute, minuteKeyOf(now)),
           getCount(e.requestsPerHour, hourKeyOf(now)),
           getCount(e.requestsPerDay, dayKeyOf(now))>>
    ELSE <<getCount(e.tokensPerMinute, minuteKeyOf(now)),
           getCount(e.tokensPerHour, hourKeyOf(now)),
           getCount(e.tokensPerDay, dayKeyOf(now))>>

\* C34: in every state of the limiter and for every user the request count of
\* the current minute bucket is at most that of the current hour bucket, which
\* is at most that of the current day bucket, and likewise for the token
\* counts; every count held is a non-negative integer
C34_NestedWindows ==
  \A u \in DOMAIN userLimits :
    /\ \A kind \in {"requests", "tokens"} :
         LET n == currentCounts(userLimits[u], kind)
         IN  n[1] <= n[2] /\ n[2] <= n[3]
    /\ \A f \in CounterFields : \A k \in DOMAIN userLimits[u][f] :
         userLimits[u][f][k] \in Nat

\* a user recorded in the first hour and again an hour later, and the sweep
\* has removed the entry of the first minute: one request in the current minute
\* and hour, two in the current day, and the tokens of the first record in the
\* day only
C34_Witness ==
  \E u \in DOMAIN userLimits :
    /\ now = HOUR_MS
    /\ 0 \notin DOMAIN userLimits[u].requestsPerMinute
    /\ currentCounts(userLimits[u], "requests") = <<1, 1, 2>>
    /\ currentCounts(userLimits[u], "tokens")[2] = 0
    /\ currentCounts(userLimits[u], "tokens")[3] > 0

\* the six counters of a user in a map of the limiter, those of an unseen user
\* being empty
countersIn(ul, u) ==
  [f \in CounterFields |-> IF u \in DOMAIN ul THEN ul[u][f] ELSE EmptyMap]

\* the key of the bucket of counter f current at time t
keyAt(f, t) ==
  CASE f \in {"requestsPerMinute", "tokensPerMinute"} -> minuteKeyOf(t)
    [] f \in {"requestsPerHour", "tokensPerHour"} -> hourKeyOf(t)
    [] f \in {"requestsPerDay", "tokensPerDay"} -> dayKeyOf(t)

\* C35: a step of checkLimit or getRemainingUsage changes no usage count of any
\* user (an unseen user gets an entry with empty counters), and a step of
\* recordRequest(u, n) changes only the counters of u in the three buckets
\* current at the time: every other user and every other bucket is as it was
C35_FrameOfTheLimiter ==
  [][/\ lastCall'.op \in {"checkLimit", "getRemainingUsage"}
          => /\ DOMAIN userLimits' = DOMAIN userLimits \cup {lastCall'.user}
             /\ \A v \in DOMAIN userLimits : userLimits'[v] = userLimits[v]
             /\ \A f \in CounterFields :
                  countersIn(userLimits', lastCall'.user)[f]
                    = countersIn(userLimits, lastCall'.user)[f]
     /\ lastCall'.op = "recordRequest"
          => /\ DOMAIN userLimits' = DOMAIN userLimits \cup {lastCall'.user}
             /\ \A v \in DOMAIN userLimits \ {lastCall'.user} :
                  userLimits'[v] = userLimits[v]
             /\ \A f \in CounterFields :
                  LET old == countersIn(userLimits, lastCall'.user)[f]
                      new == userLimits'[lastCall'.user][f]
                  IN  /\ DOMAIN new \subseteq DOMAIN old \cup {keyAt(f, now)}
                      /\ \A k \in DOMAIN old \ {keyAt(f, now)} :
                           k \in DOMAIN new /\ new[k] = old[k]]_vars

\* a user who has an entry of the minute before has just recorded a request
\* with tokens, while another user has an entry of their own
C35_Witness ==
  /\ lastCall.op = "recordRequest"
  /\ lastCall.tokenCount > 0
  /\ now = MINUTE_MS
  /\ DOMAIN userLimits[lastCall.user].requestsPerMinute = {0, 1}
  /\ DOMAIN userLimits[lastCall.user].tokensPerMinute = {0, 1}
  /\ \E v \in DOMAIN userLimits : v # lastCall.user

\* the bytes of the body received so far
received(r) == SubSeq(r.body, 1, Len(r.body) - Len(r.rest))

\* the lines of a body that have their newline
RECURSIVE terminated(_, _)
terminated(chars, piece) ==
  IF chars = <<>> THEN <<>>
  ELSE IF Head(chars) = NewLine THEN <<piece>> \o terminated(Tail(chars), <<>>)
  ELSE terminated(Tail(chars), Append(piece, Head(chars)))

\* the content of the content lines among `lines`, in their order
RECURSIVE contents(_, _)
contents(adapter, lines) ==
  IF lines = <<>> THEN <<>>
  ELSE (IF kindOf(adapter, Head(lines)) = "content"
          THEN <<Head(lines)[Len(Head(lines))]>> ELSE <<>>)
       \o contents(adapter, Tail(lines))

\* the content of the text chunks among `chunks`, in their order
RECURSIVE textsOf(_)
textsOf(chunks) ==
  IF chunks = <<>> THEN <<>>
  ELSE (IF Head(chunks).type = "text" THEN <<Head(chunks).content>> ELSE <<>>)
       \o textsOf(Tail(chunks))

\* C36: however the bytes of a body are split over the reads, the chunks an
\* adapter has delivered are those it delivers when the bytes received so far
\* arrive in one read; the text chunks are the contents of the content lines
\* received with their newline, one per line and in the order of the lines
C36_ReadBoundaries ==
  lastCall.op = "chatStream" =>
    LET r == lastCall
        whole == afterRead([r EXCEPT !.rest = r.body, !.buffer = <<>>,
                                     !.delivered = <<>>, !.pc = "read"],
                           received(r))
    IN  /\ r.delivered = IF r.pc = "closed" THEN afterDone(whole).delivered
                         ELSE whole.delivered
        /\ r.buffer = whole.buffer
        /\ textsOf(r.delivered) = contents(r.adapter, terminated(received(r), <<>>))

\* a body of two content lines was read in pieces that end inside the lines,
\* and both text chunks were delivered in the order of the lines
C36_Witness ==
  /\ lastCall.op = "chatStream"
  /\ lastCall.adapter = "openai"
  /\ lastCall.body = <<"d", "a", NewLine, "d", "b", NewLine>>
  /\ lastCall.rest = <<NewLine>>
  /\ lastCall.buffer = <<"d", "b">>
  /\ lastCall.delivered = <<TextChunk("a")>>

\* C37: the message array of the request body of the Anthropic and the Google
\* adapter holds the messages that are not system messages, in their order and
\* with their content (assistant named model for Google), and none of role
\* system; the body's system field carries the content of the last system
\* message and is absent when there is none
C37_SystemExtraction ==
  lastCall.op = "convertMessages" =>
    LET msgs == lastCall.messages
        body == lastCall.body
        others == SelectSeq(msgs, LAMBDA m : m.role # "system")
        systems == SelectSeq(msgs, LAMBDA m : m.role = "system")
        array == IF lastCall.adapter = "anthropic" THEN body.messages ELSE body.contents
        field == IF lastCall.adapter = "anthropic" THEN "system" ELSE "systemInstruction"
    IN  /\ Len(array) = Len(others)
        /\ \A i \in 1..Len(others) :
             /\ array[i].role # "system"
             /\ IF lastCall.adapter = "anthropic"
                  THEN array[i] = [role |-> others[i].role, content |-> others[i].content]
                  ELSE array[i] =
                         [role |-> IF others[i].role = "assistant" THEN "model" ELSE "user",
                          parts |-> <<[text |-> others[i].content]>>]
        /\ systems = <<>> <=> field \notin DOMAIN body
        /\ systems # <<>> =>
             body[field] = IF lastCall.adapter = "anthropic"
                             THEN systems[Len(systems)].content
                             ELSE [parts |-> <<[text |-> systems[Len(systems)].content]>>]

\* two system messages with different content around a user message: the
\* body carries the second one
C37_Witness ==
  /\ lastCall.op = "convertMessages"
  /\ lastCall.adapter = "google"
  /\ lastCall.messages = <<[role |-> "system", content |-> "p"],
                           [role |-> "assistant", content |-> "q"],
                           [role |-> "system", content |-> "q"]>>
  /\ lastCall.body.contents = <<[role |-> "model", parts |-> <<[text |-> "q"]>>]>>
  /\ lastCall.body.systemInstruction = [parts |-> <<[text |-> "q"]>>]

\* C38: however many requests the chat endpoint has handled, the limiters
\* whose sweep timer is live are no more than the requests in flight and one
\* limiter shared by all requests
C38_TimersBounded ==
  lastCall.op = "timers" =>
    lastCall.live <= Cardinality({id \in DOMAIN calls : ~Free(id)}) + 1

====
